---- MODULE Spec2Model ----
(***************************************************************************)
(* A model of the production-line simulator: the domain catalog            *)
(* (FactoryLogic), the job builder, the Factory with its MachineRuntimes,  *)
(* the FactoryState snapshot with its feasibility query, and the online    *)
(* schedulers (Greedy, Rule-Based) with the driver loop that runs them.    *)
(*                                                                         *)
(* Python values are represented as follows.                               *)
(*   Optional[T]   None is <<>>, a present value v is <<v>>                *)
(*   str ids       sequences of tokens: the pieces an f-string joins       *)
(*   object refs   positions: a Job is its index in Factory.jobs, an       *)
(*                 Operation is <<job index, operation index>>             *)
(*   float         integers                                                *)
(*   exception     the handler's result carries error /= ""                *)
(***************************************************************************)
EXTENDS Integers, Sequences, FiniteSets, TLC

VARIABLES
    jobs,                  \* Factory.jobs
    current_step,          \* Factory.current_step
    machine_runtimes_map,  \* Factory.machine_runtimes_map: machine id -> MachineRuntime
    last,                  \* the last call made on the Factory and the error it raised ("" if none)
    scheduler,             \* the online scheduler the driver built ("none": no driver)
    hash_order             \* this process's iteration order of a set of task mode ids

vars == <<jobs, current_step, machine_runtimes_map, last, scheduler, hash_order>>

None == <<>>
Some(x) == <<x>>
Range(s) == {s[i] : i \in DOMAIN s}

(***************************************************************************)
(* Bounds of the model.                                                    *)
(***************************************************************************)
\* Step calls explored after add_jobs.
Horizon == 3
\* Step calls of one driver run (main.py runs 1152).
MaxDriverSteps == 8
\* The genetic scheduler's population_size and generations (defaults 100 and 50).
PopulationSize == 2
Generations == 2

(***************************************************************************)
(* The domain catalog: the content of one configuration document.          *)
(* TM_L is longer than the end-of-day window, TM_E has an empty power      *)
(* list, TM_C has the duration and the total power of TM_B; M2 does not    *)
(* support TM_A although the task "cut" does; product U lists the task     *)
(* "cut" in two entries.                                                   *)
(***************************************************************************)
task_modes ==
    ("TM_A" :> <<4>>) @@ ("TM_B" :> <<1, 2>>) @@ ("TM_C" :> <<1, 2>>) @@
    ("TM_D" :> <<2, 2, 2, 2>>) @@
    ("TM_L" :> [i \in 1..60 |-> 1]) @@ ("TM_E" :> <<>>)

tasks ==
    ("cut" :> <<"TM_A", "TM_B", "TM_C">>) @@ ("sew" :> <<"TM_B", "TM_L">>) @@
    ("dye" :> <<"TM_D">>) @@ ("nop" :> <<"TM_E">>)

products ==
    ("X" :> << [task |-> "cut", runs |-> 1] >>) @@
    ("Y" :> << [task |-> "cut", runs |-> 1], [task |-> "sew", runs |-> 1] >>) @@
    ("Z" :> << [task |-> "sew", runs |-> 0] >>) @@
    ("W" :> << [task |-> "nop", runs |-> 1] >>) @@
    ("V" :> << [task |-> "dye", runs |-> 1] >>) @@
    ("U" :> << [task |-> "cut", runs |-> 1], [task |-> "cut", runs |-> 1] >>) @@
    ("T" :> << [task |-> "cut", runs |-> 1], [task |-> "dye", runs |-> 1] >>)

machines ==
    ("M1" :> <<"TM_A", "TM_B", "TM_C", "TM_D", "TM_L">>) @@
    ("M2" :> <<"TM_B", "TM_E">>)

\* Iteration order of the dicts keyed by machine id (insertion order).
MachineOrder == <<"M1", "M2">>

TaskModeIds == DOMAIN task_modes
MachineIds == DOMAIN machines

\* str.upper() on the task ids of the catalog.
Upper(s) ==
    CASE s = "cut" -> "CUT"
      [] s = "sew" -> "SEW"
      [] s = "nop" -> "NOP"
      [] s = "dye" -> "DYE"
      [] OTHER -> s

(***************************************************************************)
(* factory_schemas.py                                                      *)
(***************************************************************************)
\* Job.make_id: f"{product_id}#S={deadline}#I={index:04d}"
JobMakeId(product_id, deadline, index) ==
    <<product_id, "#S=", deadline, "#I=", index>>

\* Operation.make_id: f"{job_id}#{task_id.upper()}#{run_index:04d}"
OperationMakeId(job_id, task_id, run_index) ==
    job_id \o <<"#", Upper(task_id), "#", run_index>>

Operation(id, task_id, run_index, deadline) ==
    [id |-> id, task_id |-> task_id, run_index |-> run_index,
     deadline |-> deadline, started |-> FALSE, done |-> FALSE]

Job(id, product_id, operations, deadline) ==
    [id |-> id, product_id |-> product_id, operations |-> operations,
     being_processed |-> FALSE, deadline |-> deadline, done |-> FALSE]

AllOperationsDone(job) ==
    \A o \in DOMAIN job.operations : job.operations[o].done

\* A faulty variant: the job is never marked done.
check_completion_never_marking(job) == job

\* A faulty variant: done is recomputed on every call.
check_completion_recomputed(job) ==
    [job EXCEPT !.done = AllOperationsDone(job) /\ ~job.being_processed]

\* Job.check_completion: the job after the call.
check_completion(job) ==
    IF job.done THEN job
    ELSE IF AllOperationsDone(job) THEN [job EXCEPT !.done = TRUE]
    ELSE job

ProductRequest(product, amount, deadline) ==
    [product |-> product, amount |-> amount, deadline |-> deadline]

(***************************************************************************)
(* job_builder.py                                                          *)
(***************************************************************************)
RECURSIVE build_task_operations(_, _, _, _)
\* The loop over product.tasks, from entry k on.
build_task_operations(product_tasks, k, job_id, deadline) ==
    IF k > Len(product_tasks) THEN <<>>
    ELSE LET pt == product_tasks[k]
         IN  [run_index \in 1..pt.runs |->
                 Operation(OperationMakeId(job_id, pt.task, run_index),
                           pt.task, run_index, deadline)]
             \o build_task_operations(product_tasks, k + 1, job_id, deadline)

build_job_operations(product, job_id, deadline) ==
    build_task_operations(products[product], 1, job_id, deadline)

RECURSIVE build_jobs_from(_, _)
\* The loop over product_requests, from request k on.
build_jobs_from(product_requests, k) ==
    IF k > Len(product_requests) THEN <<>>
    ELSE LET pr == product_requests[k]
         IN  [index \in 1..pr.amount |->
                 LET job_id == JobMakeId(pr.product, pr.deadline, index)
                 IN  Job(job_id, pr.product,
                         build_job_operations(pr.product, job_id, pr.deadline),
                         pr.deadline)]
             \o build_jobs_from(product_requests, k + 1)

build_jobs(product_requests) == build_jobs_from(product_requests, 1)

(***************************************************************************)
(* machine_runtime.py                                                      *)
(***************************************************************************)
\* MachineRuntime.__init__ and MachineRuntime._reset leave the same fields.
IdleRuntime ==
    [busy |-> FALSE, job |-> None, operation |-> None, power_sequence |-> None,
     remaining_operation_steps |-> 0, operation_step |-> 0]

\* A Factory value: the three fields the handlers read and write.
FactoryOf(js, t, rts) ==
    [jobs |-> js, current_step |-> t, machine_runtimes_map |-> rts]

\* A faulty variant: the job's being_processed flag is not set.
start_operation_not_claiming_job(f, m, j, ref, power_sequence) ==
    LET js2 == [f.jobs EXCEPT ![ref[1]].operations[ref[2]].started = TRUE]
        rt == [busy |-> TRUE, job |-> Some(j), operation |-> Some(ref),
               power_sequence |-> Some(power_sequence),
               remaining_operation_steps |-> Len(power_sequence),
               operation_step |-> 0]
    IN  FactoryOf(js2, f.current_step, [f.machine_runtimes_map EXCEPT ![m] = rt])

\* A faulty variant: the operation's started flag is not set.
start_operation_not_marking_started(f, m, j, ref, power_sequence) ==
    LET js1 == [f.jobs EXCEPT ![j].being_processed = TRUE]
        rt == [busy |-> TRUE, job |-> Some(j), operation |-> Some(ref),
               power_sequence |-> Some(power_sequence),
               remaining_operation_steps |-> Len(power_sequence),
               operation_step |-> 0]
    IN  FactoryOf(js1, f.current_step, [f.machine_runtimes_map EXCEPT ![m] = rt])

\* MachineRuntime.start_operation on machine m, with job j and operation ref = <<oj, oo>>.
start_operation(f, m, j, ref, power_sequence) ==
    LET js1 == [f.jobs EXCEPT ![j].being_processed = TRUE]
        js2 == [js1 EXCEPT ![ref[1]].operations[ref[2]].started = TRUE]
        rt == [busy |-> TRUE, job |-> Some(j), operation |-> Some(ref),
               power_sequence |-> Some(power_sequence),
               remaining_operation_steps |-> Len(power_sequence),
               operation_step |-> 0]
    IN  FactoryOf(js2, f.current_step, [f.machine_runtimes_map EXCEPT ![m] = rt])

\* MachineRuntime.step_power on machine m: the factory after the call, the power
\* returned, and the exception raised (indexing the power list past its end).
step_power(f, m) ==
    LET rt == f.machine_runtimes_map[m]
    IN  IF ~rt.busy \/ rt.power_sequence = None
        THEN [factory |-> f, power |-> 0, error |-> ""]
        ELSE LET seq == rt.power_sequence[1]
             IN  IF rt.operation_step >= Len(seq)
                 THEN [factory |-> f, power |-> 0, error |-> "IndexError"]
                 ELSE LET power == seq[rt.operation_step + 1]
                          remaining == rt.remaining_operation_steps - 1
                          j == rt.job[1]
                          ref == rt.operation[1]
                      IN  IF remaining = 0
                          THEN LET js1 == [f.jobs EXCEPT ![j].being_processed = FALSE]
                                   js2 == [js1 EXCEPT ![ref[1]].operations[ref[2]].done = TRUE]
                               IN  [factory |-> FactoryOf(js2, f.current_step,
                                        [f.machine_runtimes_map EXCEPT ![m] = IdleRuntime]),
                                    power |-> power, error |-> ""]
                          ELSE [factory |-> FactoryOf(f.jobs, f.current_step,
                                        [f.machine_runtimes_map EXCEPT ![m] =
                                            [rt EXCEPT !.operation_step = rt.operation_step + 1,
                                                       !.remaining_operation_steps = remaining]]),
                                power |-> power, error |-> ""]

(***************************************************************************)
(* factory_logic_loader.py                                                 *)
(***************************************************************************)
\* The energy series of the catalog: solar availability per step (three steps
\* long) and grid price per step (one day long: 2 at step 1, 1 at the others).
solar_availability == <<1, 0, 3>>
grid_price == [i \in 1..192 |-> IF i = 2 THEN 2 ELSE 1]

get_solar_power_available(t) ==
    IF t < Len(solar_availability) THEN solar_availability[t + 1] ELSE 0

get_grid_power_cost(t) ==
    IF t < Len(grid_price) THEN grid_price[t + 1] ELSE 0

\* The members of seq that are in keep, in the order `order` lists them in.
RECURSIVE ListInOrder(_, _)
ListInOrder(order, keep) ==
    IF order = <<>> THEN <<>>
    ELSE (IF Head(order) \in keep THEN <<Head(order)>> ELSE <<>>)
         \o ListInOrder(Tail(order), keep)

\* FactoryLogic.get_feasible_task_modes: list(set & set); the list's order is the
\* set's iteration order, which depends on the process's string hashing.
get_feasible_task_modes(order, machine_id, operation) ==
    IF machine_id \notin DOMAIN machines \/ operation.task_id \notin DOMAIN tasks
    THEN <<>>
    ELSE ListInOrder(order, Range(machines[machine_id])
                            \cap Range(tasks[operation.task_id]))

(***************************************************************************)
(* factory.py                                                              *)
(***************************************************************************)
\* Every operation of every job, as <<job index, operation index>>.
OperationRefs(js) ==
    UNION {{<<j, o>> : o \in DOMAIN js[j].operations} : j \in DOMAIN js}

\* Factory.get_job_by_id: the first job with that id (0: ValueError, not found).
get_job_by_id(f, job_id) ==
    LET hits == {j \in DOMAIN f.jobs : f.jobs[j].id = job_id}
    IN  IF hits = {} THEN 0 ELSE CHOOSE j \in hits : \A k \in hits : j <= k

\* Factory.get_operation_by_id: the first operation with that id, in job then
\* operation order (None: ValueError, not found).
get_operation_by_id(f, operation_id) ==
    LET hits == {r \in OperationRefs(f.jobs) :
                    f.jobs[r[1]].operations[r[2]].id = operation_id}
    IN  IF hits = {} THEN None
        ELSE Some(CHOOSE r \in hits :
                    \A q \in hits : r[1] < q[1] \/ (r[1] = q[1] /\ r[2] <= q[2]))

\* A faulty variant: the machines are marked busy before the error is raised.
Raise_after_reserving(f, message) ==
    [factory |-> FactoryOf(f.jobs, f.current_step,
                     [m \in DOMAIN f.machine_runtimes_map |->
                         [f.machine_runtimes_map[m] EXCEPT !.busy = TRUE]]),
     error |-> message]

Raise(f, message) == [factory |-> f, error |-> message]
Return(f) == [factory |-> f, error |-> ""]

\* Factory.dispatch_operation: the factory after the call and the error raised.
dispatch_operation(f, machine_id, job_id, operation_id, task_mode_id) ==
    LET j == get_job_by_id(f, job_id)
        r == get_operation_by_id(f, operation_id)
    IN  IF j = 0 THEN Raise(f, "job not found")
        ELSE IF f.jobs[j].being_processed THEN Raise(f, "job is already being processed")
        ELSE IF r = None THEN Raise(f, "operation not found")
        ELSE LET ref == r[1]
                 operation == f.jobs[ref[1]].operations[ref[2]]
             IN  IF task_mode_id \notin Range(tasks[operation.task_id])
                 THEN Raise(f, "task mode not available for task")
                 ELSE IF machine_id \notin DOMAIN f.machine_runtimes_map
                         \/ machine_id \notin DOMAIN machines
                 THEN Raise(f, "machine not found")
                 ELSE IF f.machine_runtimes_map[machine_id].busy
                 THEN Raise(f, "machine is already busy")
                 ELSE IF operation.done THEN Raise(f, "operation is already done")
                 ELSE IF operation.started THEN Raise(f, "operation is already started")
                 ELSE Return(start_operation(f, machine_id, j, ref,
                                             task_modes[task_mode_id]))

\* A faulty variant: the machine named in the action is dispatched to, not the
\* machine of the map key.
RECURSIVE apply_actions_to_action_machine(_, _)
apply_actions_to_action_machine(f, actions) ==
    IF actions = <<>> THEN Return(f)
    ELSE LET action == Head(actions)[2]
         IN  IF action = None THEN apply_actions_to_action_machine(f, Tail(actions))
             ELSE LET a == action[1]
                      d == dispatch_operation(f, a.machine_id, a.job_id,
                                              a.operation_id, a.task_mode_id)
                  IN  IF d.error /= "" THEN d
                      ELSE apply_actions_to_action_machine(d.factory, Tail(actions))

\* Factory.apply_actions: actions is the map's items in iteration order, each
\* <<machine id, None or an Action>>; the first dispatch that raises ends the call.
RECURSIVE apply_actions(_, _)
apply_actions(f, actions) ==
    IF actions = <<>> THEN Return(f)
    ELSE LET machine_id == Head(actions)[1]
             action == Head(actions)[2]
         IN  IF action = None THEN apply_actions(f, Tail(actions))
             ELSE LET a == action[1]
                      d == dispatch_operation(f, machine_id, a.job_id,
                                              a.operation_id, a.task_mode_id)
                  IN  IF d.error /= "" THEN d
                      ELSE apply_actions(d.factory, Tail(actions))

\* A faulty variant: solar power is not taken off the power bought.
get_step_power_cost_without_solar(power_consumed, t) ==
    power_consumed * get_grid_power_cost(t)

\* Factory.get_step_power_cost
get_step_power_cost(power_consumed, t) ==
    LET kwh_needed == power_consumed - get_solar_power_available(t)
    IN  IF kwh_needed > 0 THEN kwh_needed * get_grid_power_cost(t) ELSE 0

\* The loop of Factory.step over the machine runtimes, from machine k on.
RECURSIVE step_machines(_, _, _)
step_machines(f, k, power_consumed) ==
    IF k > Len(MachineOrder)
    THEN [factory |-> f, power |-> power_consumed, error |-> ""]
    ELSE LET s == step_power(f, MachineOrder[k])
         IN  IF s.error /= "" THEN [factory |-> s.factory, power |-> power_consumed,
                                    error |-> s.error]
             ELSE step_machines(s.factory, k + 1, power_consumed + s.power)

\* Factory.step: the factory after the call, the step report and the error raised.
step(f) ==
    LET m == step_machines(f, 1, 0)
    IN  IF m.error /= "" THEN [factory |-> m.factory, info |-> None, error |-> m.error]
        ELSE LET checked == [j \in DOMAIN m.factory.jobs |->
                                check_completion(m.factory.jobs[j])]
                 newly == {j \in DOMAIN checked : checked[j].done /\ ~m.factory.jobs[j].done}
                 info == [machines_power_consumed |-> m.power,
                          solar_available |-> get_solar_power_available(f.current_step),
                          grid_cost |-> get_grid_power_cost(f.current_step),
                          step_power_cost |-> get_step_power_cost(m.power, f.current_step),
                          newly_completed_jobs |-> newly,
                          completed_jobs |-> {j \in DOMAIN checked : checked[j].done}]
             IN  [factory |-> FactoryOf(checked, f.current_step + 1,
                                        m.factory.machine_runtimes_map),
                  info |-> Some(info), error |-> ""]

\* Factory.done
done(f) == \A j \in DOMAIN f.jobs : f.jobs[j].done

Factory == FactoryOf(jobs, current_step, machine_runtimes_map)

(***************************************************************************)
(* factory_state.py                                                        *)
(***************************************************************************)
DayLength == 192
EndOfDayWindow == 50

\* FactoryState.get_steps_until_end_of_day
get_steps_until_end_of_day(t) == DayLength - (t % DayLength)

\* FactoryState.__init__: the snapshot of factory f. The jobs are deep copies:
\* values, which no later change of the factory reaches.
FactoryState(f) ==
    [current_step |-> f.current_step,
     steps_until_end_of_day |-> get_steps_until_end_of_day(f.current_step),
     jobs |-> f.jobs,
     machine_busy |-> [m \in DOMAIN f.machine_runtimes_map |->
                          f.machine_runtimes_map[m].busy]]

\* FactoryState.is_machine_busy: _machine_busy.get(machine_id, False)
is_machine_busy(state, machine_id) ==
    IF machine_id \in DOMAIN state.machine_busy THEN state.machine_busy[machine_id]
    ELSE FALSE

Duration(task_mode_id) == Len(task_modes[task_mode_id])

FeasibleAction(machine_id, job_id, operation_id, task_mode_id) ==
    [machine_id |-> machine_id, job_id |-> job_id, operation_id |-> operation_id,
     task_mode_id |-> task_mode_id]

\* "operation deadline has passed"
deadline_passed(state, operation) ==
    operation.deadline /= None /\ state.current_step > operation.deadline[1]

\* A faulty variant: the starting step is counted as a step of work done.
finishes_by_deadline_counting_start(state, operation, mode_id) ==
    state.current_step + Duration(mode_id) - 1 <= operation.deadline[1]

\* "if there is a deadline, operation must be able to finish in time"
finishes_by_deadline(state, operation, mode_id) ==
    state.current_step + Duration(mode_id) <= operation.deadline[1]

\* A faulty variant: the constraint applies all day.
near_end_of_day_of_any_length(steps_until_end_of_day) ==
    steps_until_end_of_day < DayLength

\* "only apply this constraint if we're close to the end of the day"
near_end_of_day(steps_until_end_of_day) ==
    steps_until_end_of_day < EndOfDayWindow

\* "filter out task modes that are not finishable before the end of the day"
finishes_today(steps_until_end_of_day, mode_id) ==
    Duration(mode_id) <= steps_until_end_of_day

\* FactoryState._get_feasible_actions_for_operation
get_feasible_actions_for_operation(state, order, machine_id, job, operation) ==
    IF job.being_processed \/ job.done THEN <<>>
    ELSE IF operation.done \/ operation.started THEN <<>>
    ELSE IF deadline_passed(state, operation) THEN <<>>
    ELSE LET all_modes == get_feasible_task_modes(order, machine_id, operation)
             InTime(mode_id) == finishes_by_deadline(state, operation, mode_id)
             by_deadline == IF operation.deadline /= None
                            THEN SelectSeq(all_modes, InTime) ELSE all_modes
             steps_until_end_of_day == get_steps_until_end_of_day(state.current_step)
             Today(mode_id) == finishes_today(steps_until_end_of_day, mode_id)
             by_day == IF near_end_of_day(steps_until_end_of_day)
                       THEN SelectSeq(by_deadline, Today) ELSE by_deadline
         IN  [i \in 1..Len(by_day) |->
                 FeasibleAction(machine_id, job.id, operation.id, by_day[i])]

\* The loops of get_feasible_actions, from operation o of job j on.
RECURSIVE feasible_from(_, _, _, _, _)
feasible_from(state, order, machine_id, j, o) ==
    IF j > Len(state.jobs) THEN <<>>
    ELSE IF o > Len(state.jobs[j].operations)
    THEN feasible_from(state, order, machine_id, j + 1, 1)
    ELSE get_feasible_actions_for_operation(state, order, machine_id, state.jobs[j],
                                            state.jobs[j].operations[o])
         \o feasible_from(state, order, machine_id, j, o + 1)

\* A faulty variant: the busy check is skipped.
get_feasible_actions_of_busy_machine(state, order, machine_id) ==
    feasible_from(state, order, machine_id, 1, 1)

\* FactoryState.get_feasible_actions
get_feasible_actions(state, order, machine_id) ==
    IF is_machine_busy(state, machine_id) THEN <<>>
    ELSE feasible_from(state, order, machine_id, 1, 1)

(***************************************************************************)
(* Python orderings the schedulers rely on.                                *)
(***************************************************************************)
RECURSIVE Sum(_)
Sum(seq) == IF seq = <<>> THEN 0 ELSE Head(seq) + Sum(Tail(seq))

\* min(seq, key=Key): the first element whose key is minimal.
FirstMin(seq, Key(_)) ==
    seq[CHOOSE i \in DOMAIN seq :
            \A k \in DOMAIN seq : Key(seq[i]) < Key(seq[k])
                                  \/ (Key(seq[i]) = Key(seq[k]) /\ i <= k)]

\* max(seq, key=Key): the first element whose key is maximal.
FirstMax(seq, Key(_)) ==
    seq[CHOOSE i \in DOMAIN seq :
            \A k \in DOMAIN seq : Key(seq[i]) > Key(seq[k])
                                  \/ (Key(seq[i]) = Key(seq[k]) /\ i <= k)]

\* The decimal digits of n >= 0, as str(n) writes them.
RECURSIVE Digits(_)
Digits(n) == IF n < 10 THEN <<n>> ELSE Digits(n \div 10) \o <<n % 10>>

\* a < b for two digit strings, each followed by "#" (which sorts before a digit).
RECURSIVE DigitsLess(_, _)
DigitsLess(a, b) ==
    IF a = <<>> THEN b /= <<>>
    ELSE IF b = <<>> THEN FALSE
    ELSE IF Head(a) /= Head(b) THEN Head(a) < Head(b)
    ELSE DigitsLess(Tail(a), Tail(b))

\* The ids of the catalog that appear in an operation id, in str order.
StrOrder == <<"CUT", "DYE", "NOP", "SEW", "T", "U", "V", "W", "X", "Y", "Z">>
StrRank(x) == CHOOSE i \in DOMAIN StrOrder : StrOrder[i] = x

\* x < y for the tokens at position p of two ids: ids and task names as str,
\* a deadline as str(deadline) ("None" sorts after every digit string), an index
\* as four digits.
TokenLess(p, x, y) ==
    CASE p \in {1, 7} -> StrRank(x) < StrRank(y)
      [] p = 3 -> /\ x /= None
                  /\ (y = None \/ DigitsLess(Digits(x[1]), Digits(y[1])))
      [] p \in {5, 9} -> x < y
      [] OTHER -> FALSE

\* a < b for two ids as Python compares str.
StrLess(a, b) ==
    LET common == 1..(IF Len(a) < Len(b) THEN Len(a) ELSE Len(b))
        diff == {p \in common : a[p] /= b[p]}
    IN  IF diff = {} THEN Len(a) < Len(b)
        ELSE LET p == CHOOSE q \in diff : \A r \in diff : q <= r
             IN  TokenLess(p, a[p], b[p])

(***************************************************************************)
(* schedulers/greedy/greedy_scheduler.py                                   *)
(***************************************************************************)
Action(machine_id, fa, start_step, end_step) ==
    [machine_id |-> machine_id, job_id |-> fa.job_id,
     operation_id |-> fa.operation_id, task_mode_id |-> fa.task_mode_id,
     start_step |-> start_step, end_step |-> end_step]

TotalPower(fa) == Sum(task_modes[fa.task_mode_id])
Steps(fa) == Duration(fa.task_mode_id)

\* A faulty variant: the action is stamped as ending one step after the mode's
\* duration.
choose_greedy_action_ending_late(state, greedy_type, machine_id, feasible_actions) ==
    LET best_action ==
            CASE greedy_type = "min_power" -> FirstMin(feasible_actions, TotalPower)
              [] greedy_type = "min_steps" -> FirstMin(feasible_actions, Steps)
              [] greedy_type = "max_power" -> FirstMax(feasible_actions, TotalPower)
              [] greedy_type = "max_steps" -> FirstMax(feasible_actions, Steps)
    IN  Action(machine_id, best_action, state.current_step,
               state.current_step + Duration(best_action.task_mode_id) + 1)

\* GreedyScheduler._choose_greedy_action_for_machine, on a non-empty list.
choose_greedy_action_for_machine(state, greedy_type, machine_id, feasible_actions) ==
    LET best_action ==
            CASE greedy_type = "min_power" -> FirstMin(feasible_actions, TotalPower)
              [] greedy_type = "min_steps" -> FirstMin(feasible_actions, Steps)
              [] greedy_type = "max_power" -> FirstMax(feasible_actions, TotalPower)
              [] greedy_type = "max_steps" -> FirstMax(feasible_actions, Steps)
    IN  Action(machine_id, best_action, state.current_step,
               state.current_step + Duration(best_action.task_mode_id))

\* A faulty variant: the chosen job is not marked as used for this step.
RECURSIVE greedy_from_not_marking_jobs(_, _, _, _, _)
greedy_from_not_marking_jobs(state, order, greedy_type, k, used_jobs) ==
    IF k > Len(MachineOrder) THEN <<>>
    ELSE LET machine_id == MachineOrder[k]
             available_for_machine == get_feasible_actions(state, order, machine_id)
         IN  IF available_for_machine = <<>>
             THEN << <<machine_id, None>> >>
                  \o greedy_from_not_marking_jobs(state, order, greedy_type, k + 1,
                                                  used_jobs)
             ELSE << <<machine_id,
                       Some(choose_greedy_action_for_machine(state, greedy_type,
                                machine_id, available_for_machine))>> >>
                  \o greedy_from_not_marking_jobs(state, order, greedy_type, k + 1,
                                                  used_jobs)

\* The loop of GreedyScheduler.choose over the machines, from machine k on.
RECURSIVE greedy_from(_, _, _, _, _)
greedy_from(state, order, greedy_type, k, used_jobs) ==
    IF k > Len(MachineOrder) THEN <<>>
    ELSE LET machine_id == MachineOrder[k]
             Free(fa) == fa.job_id \notin used_jobs
             available_for_machine ==
                 SelectSeq(get_feasible_actions(state, order, machine_id), Free)
         IN  IF available_for_machine = <<>>
             THEN << <<machine_id, None>> >>
                  \o greedy_from(state, order, greedy_type, k + 1, used_jobs)
             ELSE LET chosen_action ==
                          choose_greedy_action_for_machine(state, greedy_type, machine_id,
                                                           available_for_machine)
                  IN  << <<machine_id, Some(chosen_action)>> >>
                      \o greedy_from(state, order, greedy_type, k + 1,
                                     used_jobs \cup {chosen_action.job_id})

\* GreedyScheduler.choose: the map's items, in insertion order.
greedy_choose(state, order, greedy_type) ==
    IF state.jobs = <<>> THEN <<>>
    ELSE greedy_from(state, order, greedy_type, 1, {})

(***************************************************************************)
(* schedulers/rulebased/rule_based_scheduler.py                            *)
(***************************************************************************)
\* job_lookup[job_id]: a dict built in job order keeps the last job of an id.
job_lookup(state, job_id) ==
    LET hits == {j \in DOMAIN state.jobs : state.jobs[j].id = job_id}
    IN  state.jobs[CHOOSE j \in hits : \A k \in hits : j >= k]

\* RuleBasedScheduler._score_action; a slack of None is float("inf").
score_action(state, config, job, feasible_action) ==
    LET duration == Duration(feasible_action.task_mode_id)
        total_power == Sum(task_modes[feasible_action.task_mode_id])
        remaining_ops == Cardinality({o \in DOMAIN job.operations :
                                         ~job.operations[o].done})
        slack == IF job.deadline = None THEN None
                 ELSE Some(job.deadline[1] - (state.current_step + duration))
        urgency_bucket ==
            IF job.deadline = None THEN 3
            ELSE IF slack[1] <= 0 THEN 0
            ELSE IF slack[1] <= config.urgent_window THEN 0
            ELSE IF slack[1] <= config.caution_window THEN 1
            ELSE 2
        energy_score == IF config.prefer_low_power THEN total_power ELSE -total_power
    IN  [urgency_bucket |-> urgency_bucket, slack |-> slack,
         remaining_ops |-> remaining_ops, energy_score |-> energy_score,
         duration |-> duration, operation_id |-> feasible_action.operation_id]

\* a < b for two slacks.
SlackLess(a, b) == a /= None /\ (b = None \/ a[1] < b[1])

\* a < b for two score tuples.
ScoreLess(a, b) ==
    IF a.urgency_bucket /= b.urgency_bucket THEN a.urgency_bucket < b.urgency_bucket
    ELSE IF a.slack /= b.slack THEN SlackLess(a.slack, b.slack)
    ELSE IF a.remaining_ops /= b.remaining_ops THEN a.remaining_ops < b.remaining_ops
    ELSE IF a.energy_score /= b.energy_score THEN a.energy_score < b.energy_score
    ELSE IF a.duration /= b.duration THEN a.duration < b.duration
    ELSE StrLess(a.operation_id, b.operation_id)

\* RuleBasedScheduler._select_best_action, on a non-empty list: sorted() is
\* stable, so ranked[0] is the first action no other action scores below.
select_best_action(state, config, feasible_actions) ==
    LET Score(i) == score_action(state, config,
                                 job_lookup(state, feasible_actions[i].job_id),
                                 feasible_actions[i])
    IN  feasible_actions[CHOOSE i \in DOMAIN feasible_actions :
            /\ \A k \in DOMAIN feasible_actions : ~ScoreLess(Score(k), Score(i))
            /\ \A k \in 1..(i - 1) : ScoreLess(Score(i), Score(k))]

\* The loop of RuleBasedScheduler.choose over the machines, from machine k on.
RECURSIVE rule_based_from(_, _, _, _, _)
rule_based_from(state, order, config, k, jobs_claimed_this_step) ==
    IF k > Len(MachineOrder) THEN <<>>
    ELSE LET machine_id == MachineOrder[k]
             Free(fa) == fa.job_id \notin jobs_claimed_this_step
             available == SelectSeq(get_feasible_actions(state, order, machine_id), Free)
         IN  IF available = <<>>
             THEN << <<machine_id, None>> >>
                  \o rule_based_from(state, order, config, k + 1, jobs_claimed_this_step)
             ELSE LET best_feasible == select_best_action(state, config, available)
                      action == Action(machine_id, best_feasible, state.current_step,
                                       state.current_step
                                       + Duration(best_feasible.task_mode_id))
                  IN  << <<machine_id, Some(action)>> >>
                      \o rule_based_from(state, order, config, k + 1,
                                         jobs_claimed_this_step \cup {action.job_id})

\* RuleBasedScheduler.choose: the map's items, in insertion order.
rule_based_choose(state, order, config) ==
    IF state.jobs = <<>> THEN <<>>
    ELSE rule_based_from(state, order, config, 1, {})

\* A scheduler the driver can build: GreedyScheduler(greedy_type) or
\* RuleBasedScheduler(urgent_window, caution_window, prefer_low_power).
Greedy(greedy_type) ==
    [kind |-> "greedy", greedy_type |-> greedy_type, urgent_window |-> 0,
     caution_window |-> 0, prefer_low_power |-> TRUE]

RuleBased(urgent_window, caution_window, prefer_low_power) ==
    [kind |-> "rule_based", greedy_type |-> "", urgent_window |-> urgent_window,
     caution_window |-> caution_window, prefer_low_power |-> prefer_low_power]

NoScheduler ==
    [kind |-> "none", greedy_type |-> "", urgent_window |-> 0,
     caution_window |-> 0, prefer_low_power |-> TRUE]

Schedulers ==
    {Greedy(t) : t \in {"min_power", "min_steps", "max_power", "max_steps"}}
    \cup {RuleBased(48, 96, TRUE), RuleBased(0, 1, FALSE)}

\* scheduler.choose(state) of scheduler s.
choose(s, state, order) ==
    IF s.kind = "greedy" THEN greedy_choose(state, order, s.greedy_type)
    ELSE rule_based_choose(state, order, s)

(***************************************************************************)
(* schedulers/genetic_algorithm/genetic_scheduler.py                       *)
(* A fitness is the fraction num/den: 0.0 is 0/1, and                      *)
(* 1.0 / (1.0 + total_cost + makespan * 0.1) is 10/(10 + 10*cost + span).  *)
(***************************************************************************)
Fitness(num, den) == [num |-> num, den |-> den]
FitnessLess(a, b) == a.num * b.den < b.num * a.den

\* Individual.__init__: fitness 0.0, no actions, total_cost and makespan
\* float('inf') (None here).
Individual(genome) ==
    [genome |-> genome, fitness |-> Fitness(0, 1), actions |-> <<>>,
     total_cost |-> None, makespan |-> None]

\* The (job id, operation) pairs _create_random_genome collects, in job order.
RECURSIVE all_operations_from(_, _, _)
all_operations_from(state, j, o) ==
    IF j > Len(state.jobs) THEN <<>>
    ELSE IF o > Len(state.jobs[j].operations)
    THEN all_operations_from(state, j + 1, 1)
    ELSE << <<state.jobs[j].id, state.jobs[j].operations[o]>> >>
         \o all_operations_from(state, j, o + 1)

\* A faulty variant: the first of two numbers.
first_of_two(a, b) == a

\* A faulty variant: every mode of every machine is a choice.
GeneChoices_of_any_mode(operation) ==
    UNION {{<<operation.id, machine_id, task_mode_id>> :
               task_mode_id \in Range(machines[machine_id])} :
           machine_id \in MachineIds}

\* The genes the random choices of machine and mode can give an operation: a
\* machine with feasible modes comes first in some shuffle, and random.choice
\* can pick each of its feasible modes.
GeneChoices(operation) ==
    UNION {{<<operation.id, machine_id, task_mode_id>> :
               task_mode_id \in Range(get_feasible_task_modes(hash_order, machine_id,
                                                              operation))} :
           machine_id \in MachineIds}

\* The genomes the loop over the shuffled operations can build from operation k
\* of the list on; an operation no machine can run is left out.
RECURSIVE genomes_from(_, _)
genomes_from(operations, k) ==
    IF k > Len(operations) THEN {<<>>}
    ELSE LET choices == GeneChoices(operations[k][2])
             rest == genomes_from(operations, k + 1)
         IN  IF choices = {} THEN rest
             ELSE {<<gene>> \o genome : gene \in choices, genome \in rest}

\* The orders random.shuffle can leave a list in.
Shuffles(seq) ==
    {[i \in DOMAIN seq |-> seq[p[i]]] :
        p \in {q \in [DOMAIN seq -> DOMAIN seq] :
                  \A a, b \in DOMAIN seq : a /= b => q[a] /= q[b]}}

\* GeneticScheduler._create_random_genome: the genomes it can return.
create_random_genome(state) ==
    UNION {genomes_from(shuffled, 1) : shuffled \in Shuffles(all_operations_from(state, 1, 1))}

\* a.startswith(b) on two ids.
StartsWith(a, b) == Len(b) <= Len(a) /\ SubSeq(a, 1, Len(b)) = b

\* The greater of two numbers.
Max2(a, b) == IF a > b THEN a ELSE b

\* The loop of _decode_genome_to_actions from gene k on. operation_completion
\* is the dict as a list of <<operation id, completion time>>, a later entry
\* of an id replacing the earlier one.
RECURSIVE decode_from(_, _, _, _, _)
decode_from(state, genome, k, machine_busy_until, operation_completion) ==
    IF k > Len(genome) THEN <<>>
    ELSE LET operation_id == genome[k][1]
             machine_id == genome[k][2]
             task_mode_id == genome[k][3]
             found == get_operation_by_id(state, operation_id)
         IN  IF found = None
             THEN decode_from(state, genome, k + 1, machine_busy_until,
                              operation_completion)
             ELSE LET job_id == state.jobs[found[1][1]].id
                      duration == Duration(task_mode_id)
                      Waits(i) == StartsWith(operation_completion[i][1], job_id)
                      RECURSIVE After(_, _)
                      After(i, t) ==
                          IF i > Len(operation_completion) THEN t
                          ELSE After(i + 1, IF Waits(i)
                                            THEN Max2(t, operation_completion[i][2])
                                            ELSE t)
                      start_time == After(1, machine_busy_until[machine_id])
                      end_time == start_time + duration
                      action == [machine_id |-> machine_id, job_id |-> job_id,
                                 operation_id |-> operation_id,
                                 task_mode_id |-> task_mode_id,
                                 start_step |-> start_time, end_step |-> end_time]
                      Other(e) == e[1] /= operation_id
                  IN  <<action>>
                      \o decode_from(state, genome, k + 1,
                             [machine_busy_until EXCEPT ![machine_id] = end_time],
                             SelectSeq(operation_completion, Other)
                                 \o << <<operation_id, end_time>> >>)

\* GeneticScheduler._decode_genome_to_actions
decode_genome_to_actions(state, genome) ==
    decode_from(state, genome, 1, [m \in MachineIds |-> 0], <<>>)

\* The power the actions draw at step t, from action k on.
RECURSIVE power_used(_, _, _)
power_used(actions, t, k) ==
    IF k > Len(actions) THEN 0
    ELSE LET action == actions[k]
             power == task_modes[action.task_mode_id]
             step_in_operation == t - action.start_step
         IN  (IF action.start_step <= t /\ t < action.end_step
                 /\ step_in_operation < Len(power)
              THEN power[step_in_operation + 1] ELSE 0)
             + power_used(actions, t, k + 1)

\* The cost of the steps t .. max_step - 1: power used times grid cost, no solar.
RECURSIVE total_cost_from(_, _, _)
total_cost_from(actions, t, max_step) ==
    IF t >= max_step THEN 0
    ELSE power_used(actions, t, 1) * get_grid_power_cost(t)
         + total_cost_from(actions, t + 1, max_step)

\* The greatest end_step of a non-empty list of actions.
Makespan(actions) ==
    CHOOSE e \in {actions[i].end_step : i \in DOMAIN actions} :
        \A i \in DOMAIN actions : actions[i].end_step <= e

\* GeneticScheduler._evaluate_fitness: the individual after the call.
evaluate_fitness(state, individual) ==
    LET actions == decode_genome_to_actions(state, individual.genome)
    IN  IF actions = <<>>
        THEN [individual EXCEPT !.fitness = Fitness(0, 1), !.total_cost = None,
                                !.makespan = None]
        ELSE LET makespan == Makespan(actions)
                 total_cost == total_cost_from(actions, 0, makespan)
             IN  [genome |-> individual.genome,
                  fitness |-> Fitness(10, 10 + 10 * total_cost + makespan),
                  actions |-> actions, total_cost |-> Some(total_cost),
                  makespan |-> Some(makespan)]

\* max(population, key=fitness): the first individual of the greatest fitness.
FittestOf(population) ==
    population[CHOOSE i \in DOMAIN population :
        /\ \A k \in DOMAIN population :
               ~FitnessLess(population[i].fitness, population[k].fitness)
        /\ \A k \in 1..(i - 1) :
               FitnessLess(population[k].fitness, population[i].fitness)]

\* population.sort(key=fitness, reverse=True): a stable sort, so among equal
\* fitnesses the earlier individual stays first.
RECURSIVE SortedByFitness(_)
SortedByFitness(population) ==
    IF population = <<>> THEN <<>>
    ELSE LET i == CHOOSE k \in DOMAIN population :
                      /\ \A n \in DOMAIN population :
                             ~FitnessLess(population[k].fitness, population[n].fitness)
                      /\ \A n \in 1..(k - 1) :
                             FitnessLess(population[n].fitness, population[k].fitness)
         IN  <<population[i]>>
             \o SortedByFitness(SubSeq(population, 1, i - 1)
                                \o SubSeq(population, i + 1, Len(population)))

\* A faulty variant: the individuals at the end of the sorted list are kept.
elites_from_the_end(sorted_population, elitism_count) ==
    SubSeq(sorted_population, Len(sorted_population) - elitism_count + 1,
           Len(sorted_population))

\* "Elitism: preserve best individuals": deep copies of the first elitism_count.
elites(sorted_population, elitism_count) ==
    SubSeq(sorted_population, 1, elitism_count)

\* The sum of the fitnesses is 0: every fitness is 0.
TotalFitnessIsZero(population) ==
    \A i \in DOMAIN population : population[i].fitness.num = 0

\* GeneticScheduler._fitness_proportionate_selection: the positions the roulette
\* wheel can stop at. With a total of 0, random.choice takes any; otherwise the
\* first individual whose running sum reaches the selection point, which is the
\* first one (point 0) or one of fitness above 0.
fitness_proportionate_selection(population) ==
    IF TotalFitnessIsZero(population) THEN DOMAIN population
    ELSE {i \in DOMAIN population : i = 1 \/ population[i].fitness.num > 0}

\* The values random.randint(1, min(len, len) - 1) can return: none is ValueError.
CrossoverPoints(parent1, parent2) ==
    LET shorter == IF Len(parent1.genome) < Len(parent2.genome)
                   THEN Len(parent1.genome) ELSE Len(parent2.genome)
    IN  1..(shorter - 1)

\* A faulty variant: the child's genome is the first parent's list itself.
genome_owner_first_parent(i1, i2) == i1

\* The individual of the population whose genome list is also the child's, for
\* the parents at positions i1 and i2: none (0), the child's list is a new one
\* (a copy, or a concatenation of slices).
genome_owner(i1, i2) == 0

\* GeneticScheduler._crossover at a crossover point.
crossover(parent1, parent2, crossover_point) ==
    IF Len(parent1.genome) = 0 \/ Len(parent2.genome) = 0
    THEN Individual(parent1.genome)
    ELSE Individual(SubSeq(parent1.genome, 1, crossover_point)
                    \o SubSeq(parent2.genome, crossover_point + 1, Len(parent2.genome)))

\* GeneticScheduler._mutate once mutation_index is drawn: the individuals it can
\* return.
mutate_at(state, individual, mutation_index) ==
    LET found == get_operation_by_id(state, individual.genome[mutation_index][1])
    IN  IF found = None THEN {individual}
        ELSE LET operation == state.jobs[found[1][1]].operations[found[1][2]]
             IN  IF GeneChoices(operation) = {} THEN {individual}
                 ELSE {[individual EXCEPT !.genome[mutation_index] = gene] :
                          gene \in GeneChoices(operation)}

\* GeneticScheduler._mutate: the individuals it can return.
mutate(state, individual) ==
    IF individual.genome = <<>> THEN {individual}
    ELSE UNION {mutate_at(state, individual, mutation_index) :
                   mutation_index \in DOMAIN individual.genome}

\* GeneticScheduler(population_size, generations, mutation_rate, elitism_count)
\* and the locals of its schedule call. mutation_rate is whether it is above 0.
Genetic(population_size, generations, mutation_rate, elitism_count) ==
    [kind |-> "genetic", population_size |-> population_size,
     generations |-> generations, mutation_rate |-> mutation_rate,
     elitism_count |-> elitism_count,
     pc |-> "initialize", population |-> <<>>, new_population |-> <<>>,
     best_individual |-> None, generation |-> 0, scheduled_actions |-> <<>>]

(***************************************************************************)
(* The inputs explored.                                                    *)
(***************************************************************************)
\* Two iteration orders of a set of task mode ids, each the reverse of the other.
HashOrders ==
    {<<"TM_A", "TM_B", "TM_C", "TM_D", "TM_L", "TM_E">>,
     <<"TM_E", "TM_L", "TM_D", "TM_C", "TM_B", "TM_A">>}

\* The steps at which add_jobs is called on the still empty factory: at the
\* start, just before the end-of-day window opens, and just before the day ends.
AddJobsAt == {0, DayLength - EndOfDayWindow - 1, DayLength - 3}

\* The product request lists given to the job builder at step t. At step 0: no
\* request, one job, a job of two operations, two jobs of one request, the same
\* request twice, a product without operations, an amount of 0, a task whose
\* mode has an empty power list; without a deadline and with one two steps
\* ahead. At the later steps: a deadline two steps ahead, and one long past;
\* before the end-of-day window a single job of one four-step operation, and
\* before the end of the day a product listing a task twice.
RequestLists(t) ==
    LET soon == Some(t + 2)
    IN  IF t = 0
        THEN {<<>>,
              <<ProductRequest("X", 1, None)>>,
              <<ProductRequest("Y", 1, soon)>>,
              <<ProductRequest("X", 2, soon)>>,
              <<ProductRequest("X", 1, None), ProductRequest("X", 1, None)>>,
              <<ProductRequest("Y", 1, None), ProductRequest("X", 1, soon)>>,
              <<ProductRequest("Z", 1, None), ProductRequest("X", 0, None)>>,
              <<ProductRequest("W", 1, None), ProductRequest("X", 1, soon)>>}
        ELSE {<<ProductRequest("Y", 1, None)>>,
              <<ProductRequest("Y", 1, soon)>>,
              <<ProductRequest("X", 1, Some(2)), ProductRequest("X", 1, None)>>}
             \cup (IF t = DayLength - 3
                   THEN {<<ProductRequest("U", 1, None)>>}
                   ELSE {<<ProductRequest("V", 1, None)>>})

\* Ids no job and no operation carries, and a machine the catalog does not list.
UnknownJobId == JobMakeId("Q", None, 1)
UnknownOperationId == OperationMakeId(UnknownJobId, "cut", 1)
UnknownMachineId == "M3"

JobIds == {jobs[j].id : j \in DOMAIN jobs}
OperationIds == {jobs[r[1]].operations[r[2]].id : r \in OperationRefs(jobs)}

(***************************************************************************)
(* The Factory under any sequence of calls.                                *)
(***************************************************************************)
\* The exception a handler's error is raised as.
ExceptionType(error) ==
    IF error = "" THEN "" ELSE IF error = "IndexError" THEN error ELSE "ValueError"

Called(call, error) == [call |-> call, error |-> ExceptionType(error)]

Init ==
    /\ jobs = <<>>
    /\ current_step = 0
    /\ machine_runtimes_map = [m \in MachineIds |-> IdleRuntime]
    /\ last = Called("init", "")
    /\ scheduler = NoScheduler
    /\ hash_order \in HashOrders

SetFactory(f) ==
    /\ jobs' = f.jobs
    /\ current_step' = f.current_step
    /\ machine_runtimes_map' = f.machine_runtimes_map

\* Factory.add_jobs(JobBuilder.build_jobs(product_requests))
AddJobs ==
    /\ jobs = <<>>
    /\ last.call /= "add_jobs"
    /\ current_step \in AddJobsAt
    /\ \E product_requests \in RequestLists(current_step) :
           jobs' = jobs \o build_jobs(product_requests)
    /\ last' = Called("add_jobs", "")
    /\ UNCHANGED <<current_step, machine_runtimes_map, scheduler, hash_order>>

\* Factory.dispatch_operation(machine_id, job_id, operation_id, task_mode_id)
Dispatch ==
    \E machine_id \in MachineIds \cup {UnknownMachineId},
       job_id \in JobIds \cup {UnknownJobId},
       operation_id \in OperationIds \cup {UnknownOperationId},
       task_mode_id \in TaskModeIds :
        LET d == dispatch_operation(Factory, machine_id, job_id, operation_id,
                                    task_mode_id)
        IN  /\ SetFactory(d.factory)
            /\ last' = Called("dispatch_operation", d.error)
            /\ UNCHANGED <<scheduler, hash_order>>

\* Factory.apply_actions(s.choose(Factory.get_factory_state())) for a scheduler s.
ChooseApply ==
    /\ jobs /= <<>>
    /\ \E s \in Schedulers :
        LET a == apply_actions(Factory, choose(s, FactoryState(Factory), hash_order))
        IN  /\ SetFactory(a.factory)
            /\ last' = Called("apply_actions", a.error)
    /\ UNCHANGED <<scheduler, hash_order>>

\* Step calls are explored up to the last step of AddJobsAt on the empty
\* factory, and for Horizon steps after add_jobs.
StepInBounds ==
    IF jobs = <<>> THEN \E t \in AddJobsAt : current_step < t
    ELSE \E t \in AddJobsAt : t <= current_step /\ current_step < t + Horizon

\* Factory.step()
Step ==
    /\ StepInBounds
    /\ LET r == step(Factory)
       IN  /\ SetFactory(r.factory)
           /\ last' = Called("step", r.error)
    /\ UNCHANGED <<scheduler, hash_order>>

Next == AddJobs \/ Dispatch \/ ChooseApply \/ Step

Spec == Init /\ [][Next]_vars

(***************************************************************************)
(* The driver loop of main.py: build the jobs, add them, build a           *)
(* scheduler; while not done and steps remain: choose on the snapshot,     *)
(* apply, step, take the next snapshot. An exception raised by a Factory   *)
(* call ends the run. The loop is the one the online schedulers are        *)
(* written for: main.py also adds the report step() returns to the number  *)
(* total_power_cost (line 35), which is no part of the factory's state and *)
(* is left out here; with the dict step() returns, that addition raises    *)
(* TypeError in main.py itself.                                            *)
(***************************************************************************)
DriverInit ==
    /\ jobs = <<>>
    /\ current_step = 0
    /\ machine_runtimes_map = [m \in MachineIds |-> IdleRuntime]
    /\ last = Called("init", "")
    /\ scheduler \in Schedulers
    /\ hash_order \in HashOrders

\* The product request lists of the driver runs: those of step 0, and four jobs
\* for two machines.
DriverRequestLists ==
    RequestLists(0) \cup {<<ProductRequest("X", 4, None)>>}

DriverAddJobs ==
    /\ last.call = "init"
    /\ \E product_requests \in DriverRequestLists :
           jobs' = jobs \o build_jobs(product_requests)
    /\ last' = Called("add_jobs", "")
    /\ UNCHANGED <<current_step, machine_runtimes_map, scheduler, hash_order>>

LoopCondition == ~done(Factory) /\ current_step < MaxDriverSteps

DriverChooseApply ==
    /\ last.call \in {"add_jobs", "step"}
    /\ last.error = ""
    /\ LoopCondition
    /\ LET a == apply_actions(Factory,
                              choose(scheduler, FactoryState(Factory), hash_order))
       IN  /\ SetFactory(a.factory)
           /\ last' = Called("apply_actions", a.error)
    /\ UNCHANGED <<scheduler, hash_order>>

DriverStep ==
    /\ last.call = "apply_actions"
    /\ last.error = ""
    /\ LET r == step(Factory)
       IN  /\ SetFactory(r.factory)
           /\ last' = Called("step", r.error)
    /\ UNCHANGED <<scheduler, hash_order>>

DriverNext == DriverAddJobs \/ DriverChooseApply \/ DriverStep

DriverSpec == DriverInit /\ [][DriverNext]_vars

\* The snapshot of the factory a scheduler is given.
Snapshot == FactoryState(Factory)

\* The operation a reference <<job index, operation index>> leads to.
OperationAt(js, r) == js[r[1]].operations[r[2]]

(***************************************************************************)
(* GeneticScheduler.schedule on the snapshot of a factory whose jobs were  *)
(* just added. The variable scheduler holds the scheduler object and the   *)
(* locals of the call; pc is the place the call is at. Every random draw   *)
(* is a choice among the values it can return.                             *)
(***************************************************************************)
\* The schedulers built: with mutation and one elite, without either.
GeneticSchedulers ==
    {Genetic(PopulationSize, Generations, TRUE, 1),
     Genetic(PopulationSize, Generations, FALSE, 0)}

\* The product request lists: none, a single operation, no operation, two jobs
\* of one operation each, one with a deadline, a job of two operations with a
\* deadline.
GeneticRequestLists ==
    {<<>>,
     <<ProductRequest("X", 1, None)>>,
     <<ProductRequest("Z", 1, None), ProductRequest("X", 0, None)>>,
     <<ProductRequest("W", 1, None), ProductRequest("X", 1, Some(2))>>,
     <<ProductRequest("T", 1, Some(2))>>}

GeneticInit ==
    /\ jobs = <<>>
    /\ current_step = 0
    /\ machine_runtimes_map = [m \in MachineIds |-> IdleRuntime]
    /\ last = Called("init", "")
    /\ scheduler \in GeneticSchedulers
    /\ hash_order \in HashOrders

GeneticAddJobs ==
    /\ last.call = "init"
    /\ \E product_requests \in GeneticRequestLists :
           jobs' = jobs \o build_jobs(product_requests)
    /\ last' = Called("add_jobs", "")
    /\ UNCHANGED <<current_step, machine_runtimes_map, scheduler, hash_order>>

\* schedule is called on the snapshot of a factory no call of which has raised.
BetweenCalls ==
    /\ last.call \in {"add_jobs", "apply_actions", "step"}
    /\ last.error = ""

\* "if not factory_state.jobs: return []"
ScheduleNothing ==
    /\ BetweenCalls
    /\ scheduler.pc = "initialize"
    /\ jobs = <<>>
    /\ scheduler' = [scheduler EXCEPT !.pc = "returned"]
    /\ last' = Called("schedule", "")
    /\ UNCHANGED <<jobs, current_step, machine_runtimes_map, hash_order>>

\* _initialize_population: one pass of its loop.
InitializePopulation ==
    /\ BetweenCalls
    /\ scheduler.pc = "initialize"
    /\ jobs /= <<>>
    /\ Len(scheduler.population) < scheduler.population_size
    /\ \E genome \in create_random_genome(Snapshot) :
           scheduler' = [scheduler EXCEPT
                            !.population = Append(@, Individual(genome))]
    /\ UNCHANGED <<jobs, current_step, machine_runtimes_map, last, hash_order>>

\* "Evaluate initial population" and the first best_individual.
EvaluatePopulation ==
    /\ BetweenCalls
    /\ scheduler.pc = "initialize"
    /\ jobs /= <<>>
    /\ Len(scheduler.population) = scheduler.population_size
    /\ LET population == [i \in DOMAIN scheduler.population |->
                              evaluate_fitness(Snapshot, scheduler.population[i])]
       IN  scheduler' = [scheduler EXCEPT
                            !.population = population,
                            !.best_individual = Some(FittestOf(population)),
                            !.pc = "generation"]
    /\ UNCHANGED <<jobs, current_step, machine_runtimes_map, last, hash_order>>

\* The head of the evolution loop: the sort and the elites.
StartGeneration ==
    /\ scheduler.pc = "generation"
    /\ scheduler.generation < scheduler.generations
    /\ LET sorted_population == SortedByFitness(scheduler.population)
       IN  scheduler' = [scheduler EXCEPT
                            !.population = sorted_population,
                            !.new_population =
                                elites(sorted_population, scheduler.elitism_count),
                            !.pc = "breed"]
    /\ UNCHANGED <<jobs, current_step, machine_runtimes_map, last, hash_order>>

\* One pass of the while loop: selection, crossover, mutation, evaluation.
\* random.randint on an empty range raises ValueError out of schedule.
Breed ==
    /\ scheduler.pc = "breed"
    /\ Len(scheduler.new_population) < scheduler.population_size
    /\ \E i1, i2 \in fitness_proportionate_selection(scheduler.population) :
        LET parent1 == scheduler.population[i1]
            parent2 == scheduler.population[i2]
            owner == genome_owner(i1, i2)
            Grown(child) ==
                /\ \E mutated \in {child} \cup (IF scheduler.mutation_rate
                                                 THEN mutate(Snapshot, child) ELSE {}) :
                       scheduler' = [scheduler EXCEPT
                           !.new_population =
                               Append(@, evaluate_fitness(Snapshot, mutated)),
                           !.population =
                               IF owner = 0 THEN @
                               ELSE [@ EXCEPT ![owner].genome = mutated.genome]]
                /\ UNCHANGED last
        IN  IF Len(parent1.genome) = 0 \/ Len(parent2.genome) = 0
            THEN Grown(crossover(parent1, parent2, 0))
            ELSE IF CrossoverPoints(parent1, parent2) = {}
            THEN /\ scheduler' = [scheduler EXCEPT !.pc = "raised"]
                 /\ last' = Called("schedule", "ValueError")
            ELSE \E crossover_point \in CrossoverPoints(parent1, parent2) :
                     Grown(crossover(parent1, parent2, crossover_point))
    /\ UNCHANGED <<jobs, current_step, machine_runtimes_map, hash_order>>

\* The end of a generation: the new population and "Track best solution".
EndGeneration ==
    /\ scheduler.pc = "breed"
    /\ Len(scheduler.new_population) >= scheduler.population_size
    /\ LET current_best == FittestOf(scheduler.new_population)
           best_individual == scheduler.best_individual[1]
       IN  scheduler' = [scheduler EXCEPT
                            !.population = scheduler.new_population,
                            !.best_individual =
                                IF FitnessLess(best_individual.fitness,
                                               current_best.fitness)
                                THEN Some(current_best) ELSE @,
                            !.generation = @ + 1,
                            !.pc = "generation"]
    /\ UNCHANGED <<jobs, current_step, machine_runtimes_map, last, hash_order>>

\* "Return best schedule"
ReturnSchedule ==
    /\ scheduler.pc = "generation"
    /\ scheduler.generation = scheduler.generations
    /\ scheduler' = [scheduler EXCEPT
                         !.scheduled_actions = scheduler.best_individual[1].actions,
                         !.pc = "returned"]
    /\ last' = Called("schedule", "")
    /\ UNCHANGED <<jobs, current_step, machine_runtimes_map, hash_order>>

GeneticNext ==
    \/ GeneticAddJobs
    \/ ScheduleNothing
    \/ InitializePopulation
    \/ EvaluatePopulation
    \/ StartGeneration
    \/ Breed
    \/ EndGeneration
    \/ ReturnSchedule

GeneticSpec == GeneticInit /\ [][GeneticNext]_vars

(***************************************************************************)
(* GeneticScheduler.schedule on the snapshot of a factory that is running: *)
(* before schedule is called, the jobs may have been dispatched by a       *)
(* greedy choice and the factory stepped.                                  *)
(***************************************************************************)
ScheduleNotCalled == scheduler.pc = "initialize" /\ scheduler.population = <<>>

\* Factory.apply_actions(GreedyScheduler("min_power").choose(snapshot))
GeneticChooseApply ==
    /\ last.call \in {"add_jobs", "step"}
    /\ last.error = ""
    /\ ScheduleNotCalled
    /\ jobs /= <<>>
    /\ current_step < Horizon
    /\ LET a == apply_actions(Factory, choose(Greedy("min_power"), Snapshot, hash_order))
       IN  /\ SetFactory(a.factory)
           /\ last' = Called("apply_actions", a.error)
    /\ UNCHANGED <<scheduler, hash_order>>

\* Factory.step()
GeneticStep ==
    /\ last.call = "apply_actions"
    /\ last.error = ""
    /\ ScheduleNotCalled
    /\ LET r == step(Factory)
       IN  /\ SetFactory(r.factory)
           /\ last' = Called("step", r.error)
    /\ UNCHANGED <<scheduler, hash_order>>

MidRunGeneticNext == GeneticNext \/ GeneticChooseApply \/ GeneticStep

MidRunGeneticSpec == GeneticInit /\ [][MidRunGeneticNext]_vars

(***************************************************************************)
(* A FactoryState object held by a strategy while the Factory goes on.     *)
(* The object's jobs are references to Job objects: to an object of the    *)
(* Factory's own list, or to an object only the FactoryState reaches. The  *)
(* variable scheduler holds the strategy and the FactoryState it was given.*)
(***************************************************************************)
\* A faulty variant: the FactoryState keeps the Factory's own Job object.
same_object(f, j) == [heap |-> "factory", index |-> j, object |-> f.jobs[j]]

\* deepcopy(job) of job j of the factory: a new object equal to the job.
deepcopy(f, j) == [heap |-> "snapshot", index |-> j, object |-> f.jobs[j]]

\* The Job object a reference leads to, as it is now.
Deref(reference) ==
    IF reference.heap = "factory" THEN jobs[reference.index] ELSE reference.object

\* FactoryState.__init__: the object's slots.
FactoryStateObject(f) ==
    [_current_step |-> f.current_step,
     _steps_until_end_of_day |-> get_steps_until_end_of_day(f.current_step),
     _jobs |-> [j \in DOMAIN f.jobs |-> deepcopy(f, j)],
     _machine_busy |-> [m \in DOMAIN f.machine_runtimes_map |->
                           f.machine_runtimes_map[m].busy],
     _initialized |-> TRUE]

\* What the properties of a FactoryState object return now: current_step,
\* steps_until_end_of_day, jobs, and the map is_machine_busy reads.
Reported(object) ==
    [current_step |-> object._current_step,
     steps_until_end_of_day |-> object._steps_until_end_of_day,
     jobs |-> [j \in DOMAIN object._jobs |-> Deref(object._jobs[j])],
     machine_busy |-> object._machine_busy]

\* FactoryState.__setattr__(key, value)
setattr(object, key, value) ==
    IF object._initialized
    THEN [object |-> object, error |-> "AttributeError"]
    ELSE [object |-> [object EXCEPT ![key] = value], error |-> ""]

\* The slots of a FactoryState.
Slots == {"_current_step", "_steps_until_end_of_day", "_jobs", "_machine_busy",
          "_initialized"}

\* A strategy holding the FactoryState it was given.
Holding(object) == [kind |-> "holding", factory_state |-> object]

\* The product request lists: a job with a deadline, a job of one long operation.
SnapshotRequestLists ==
    {<<ProductRequest("X", 1, Some(2))>>, <<ProductRequest("V", 1, None)>>}

SnapshotAddJobs ==
    /\ jobs = <<>>
    /\ current_step = 0
    /\ \E product_requests \in SnapshotRequestLists :
           jobs' = jobs \o build_jobs(product_requests)
    /\ last' = Called("add_jobs", "")
    /\ UNCHANGED <<current_step, machine_runtimes_map, scheduler, hash_order>>

\* Factory.get_factory_state(), the result given to a strategy.
GetFactoryState ==
    /\ jobs /= <<>>
    /\ scheduler.kind = "none"
    /\ scheduler' = Holding(FactoryStateObject(Factory))
    /\ last' = Called("get_factory_state", "")
    /\ UNCHANGED <<jobs, current_step, machine_runtimes_map, hash_order>>

\* Factory.dispatch_operation on a machine, an operation of a job and a mode of
\* the operation's task, before the FactoryState is taken or while it is held.
LiveDispatch ==
    \E machine_id \in MachineIds, r \in OperationRefs(jobs) :
        \E task_mode_id \in Range(tasks[OperationAt(jobs, r).task_id]) :
            LET d == dispatch_operation(Factory, machine_id, jobs[r[1]].id,
                                        OperationAt(jobs, r).id, task_mode_id)
            IN  /\ SetFactory(d.factory)
                /\ last' = Called("dispatch_operation", d.error)
                /\ UNCHANGED <<scheduler, hash_order>>

\* Factory.step while the FactoryState is held or before it is taken.
LiveStep ==
    /\ jobs /= <<>>
    /\ Step

\* state.x = value on the held FactoryState, for each slot and property name.
SetAttr ==
    /\ scheduler.kind = "holding"
    /\ \E key \in Slots, value \in {None} :
        LET r == setattr(scheduler.factory_state, key, value)
        IN  /\ scheduler' = [scheduler EXCEPT !.factory_state = r.object]
            /\ last' = [call |-> "setattr", error |-> r.error]
    /\ UNCHANGED <<jobs, current_step, machine_runtimes_map, hash_order>>

\* The object a write through a reference changes: the Factory's, or the
\* FactoryState's own.
WriteJob(j, job) ==
    LET reference == scheduler.factory_state._jobs[j]
    IN  IF reference.heap = "factory"
        THEN /\ jobs' = [jobs EXCEPT ![reference.index] = job]
             /\ UNCHANGED scheduler
        ELSE /\ scheduler' = [scheduler EXCEPT !.factory_state._jobs[j].object = job]
             /\ UNCHANGED jobs

\* state.jobs[j].done = True, state.jobs[j].operations[o].started = True: the
\* Job and Operation models accept assignments.
WriteThroughJobs ==
    /\ scheduler.kind = "holding"
    /\ \E j \in DOMAIN scheduler.factory_state._jobs :
        LET job == Deref(scheduler.factory_state._jobs[j])
        IN  \/ WriteJob(j, [job EXCEPT !.done = TRUE])
            \/ \E o \in DOMAIN job.operations :
                   WriteJob(j, [job EXCEPT !.operations[o].started = TRUE])
    /\ last' = Called("write", "")
    /\ UNCHANGED <<current_step, machine_runtimes_map, hash_order>>

SnapshotNext ==
    \/ SnapshotAddJobs
    \/ GetFactoryState
    \/ LiveDispatch
    \/ ChooseApply
    \/ LiveStep
    \/ SetAttr
    \/ WriteThroughJobs

SnapshotSpec == Init /\ [][SnapshotNext]_vars

(***************************************************************************)
(* Properties.                                                             *)
(***************************************************************************)
Runtime(m) == machine_runtimes_map[m]

\* The actions get_feasible_actions returns for machine m on the snapshot.
Feasible(m) == Range(get_feasible_actions(Snapshot, hash_order, m))

\* The operations of the snapshot an action's operation id names.
Named(fa) ==
    {r \in OperationRefs(Snapshot.jobs) :
        OperationAt(Snapshot.jobs, r).id = fa.operation_id}

\* C1: in the driver loop, no dispatch of an action the scheduler chose on the
\* current snapshot fails a precondition: apply_actions never raises.
C1_ChosenActionsAreAccepted ==
    ~(last.call = "apply_actions" /\ last.error /= "")

\* C2: a job that is being processed has exactly one of its own operations
\* assigned to a machine runtime, and a dispatch naming such a job is rejected.
C2_BeingProcessedHoldsOwnOperation ==
    \A j \in DOMAIN jobs :
        jobs[j].being_processed =>
            /\ Cardinality({m \in MachineIds :
                               /\ Runtime(m).operation /= None
                               /\ Runtime(m).operation[1][1] = j}) = 1
            /\ \A machine_id \in MachineIds, operation_id \in OperationIds,
                  task_mode_id \in TaskModeIds :
                   dispatch_operation(Factory, machine_id, jobs[j].id, operation_id,
                                      task_mode_id).error /= ""

\* C3: a machine runtime is busy iff it holds a non-empty power sequence and
\* has more than 0 remaining steps.
C3_BusyIffPowerLeft ==
    \A m \in MachineIds :
        Runtime(m).busy <=>
            /\ Runtime(m).power_sequence /= None
            /\ Len(Runtime(m).power_sequence[1]) > 0
            /\ Runtime(m).remaining_operation_steps > 0

BusyIffAssigned ==
    \A m \in MachineIds :
        Runtime(m).busy <=> (Runtime(m).job /= None /\ Runtime(m).operation /= None)

\* A step call on busy machine m takes one step off its operation, and the call
\* that takes the last one completes it: the machine is idle with its references
\* released, the operation is done and the job is no longer being processed.
CompletesOrAdvances(m) ==
    LET j == Runtime(m).job[1]
        r == Runtime(m).operation[1]
        after == machine_runtimes_map'[m]
    IN  /\ after.remaining_operation_steps = Runtime(m).remaining_operation_steps - 1
        /\ IF after.remaining_operation_steps = 0
           THEN /\ after = IdleRuntime
                /\ OperationAt(jobs', r).done
                /\ ~jobs'[j].being_processed
           ELSE /\ after.busy
                /\ after.operation = Runtime(m).operation
                /\ ~OperationAt(jobs', r).done

\* C4: a machine is busy iff a job and an operation are assigned to it, and every
\* dispatched operation is completed exactly once: each step call takes one
\* step off it until the call that brings the remaining steps to 0 completes it.
C4_CompletionExactlyOnce ==
    /\ []BusyIffAssigned
    /\ [][last'.call = "step" =>
            \A m \in MachineIds : Runtime(m).busy => CompletesOrAdvances(m)]_vars

\* C5: every operation that is done is started.
C5_DoneImpliesStarted ==
    \A r \in OperationRefs(jobs) :
        OperationAt(jobs, r).done => OperationAt(jobs, r).started

\* An operation has run on a machine to its end.
C5_Witness ==
    \E r \in OperationRefs(jobs) :
        OperationAt(jobs, r).done /\ OperationAt(jobs, r).started

\* C6: between Factory calls, a job is done iff all of its operations are done,
\* a job without operations included.
C6_DoneIffAllOperationsDone ==
    \A j \in DOMAIN jobs : jobs[j].done <=> AllOperationsDone(jobs[j])

\* C7: a job that is done stays done under every later call.
C7_DoneIsMonotonic ==
    [][\A j \in DOMAIN jobs :
          jobs[j].done => (j \in DOMAIN jobs' /\ jobs'[j].done)]_vars

\* A done job has been dispatched again (with another job's operation) and is
\* being processed.
C7_Witness ==
    \E j \in DOMAIN jobs : jobs[j].done /\ jobs[j].being_processed

\* C8: get_feasible_actions returns the empty list for every machine the snapshot
\* records as busy.
C8_BusyMachineHasNoFeasibleAction ==
    \A m \in MachineIds \cup {UnknownMachineId} :
        is_machine_busy(Snapshot, m) =>
            get_feasible_actions(Snapshot, hash_order, m) = <<>>

\* A busy machine for which an operation would otherwise be feasible.
C8_Witness ==
    \E m \in MachineIds :
        /\ is_machine_busy(Snapshot, m)
        /\ feasible_from(Snapshot, hash_order, m, 1, 1) /= <<>>

\* C9: every feasible action returned for an operation with a deadline ends by
\* the deadline, and none is returned for an operation whose deadline has passed.
C9_FeasibleActionsMeetDeadline ==
    \A m \in MachineIds : \A fa \in Feasible(m) : \A r \in Named(fa) :
        LET operation == OperationAt(Snapshot.jobs, r)
        IN  operation.deadline /= None =>
                /\ Snapshot.current_step <= operation.deadline[1]
                /\ Snapshot.current_step + Duration(fa.task_mode_id)
                       <= operation.deadline[1]

\* An action is returned that ends exactly at its operation's deadline, while a
\* longer mode of the same operation and machine is left out.
C9_Witness ==
    \E m \in MachineIds : \E fa \in Feasible(m) : \E r \in Named(fa) :
        LET operation == OperationAt(Snapshot.jobs, r)
        IN  /\ operation.deadline /= None
            /\ Snapshot.current_step + Duration(fa.task_mode_id) = operation.deadline[1]
            /\ \E longer \in Range(machines[m]) \cap Range(tasks[operation.task_id]) :
                   /\ Duration(longer) > Duration(fa.task_mode_id)
                   /\ \A other \in Feasible(m) :
                          other.operation_id = fa.operation_id
                              => other.task_mode_id /= longer

\* The (operation, mode) pairs the catalog and the deadline allow on machine m.
Allowed(m) ==
    {<<r, mode_id>> \in OperationRefs(Snapshot.jobs) \X TaskModeIds :
        LET job == Snapshot.jobs[r[1]]
            operation == OperationAt(Snapshot.jobs, r)
        IN  /\ ~is_machine_busy(Snapshot, m)
            /\ ~job.being_processed /\ ~job.done
            /\ ~operation.started /\ ~operation.done
            /\ mode_id \in Range(machines[m]) \cap Range(tasks[operation.task_id])
            /\ operation.deadline /= None =>
                   Snapshot.current_step + Duration(mode_id) <= operation.deadline[1]}

\* C10: with 50 or more steps until the end of the day, a mode longer than the
\* rest of the day is still returned; with fewer than 50, every returned action's
\* mode is no longer than the rest of the day.
C10_EndOfDayWindow ==
    LET left == DayLength - (current_step % DayLength)
    IN  \A m \in MachineIds :
            /\ left >= EndOfDayWindow =>
                   \A a \in Allowed(m) :
                       Duration(a[2]) > left =>
                           FeasibleAction(m, Snapshot.jobs[a[1][1]].id,
                                          OperationAt(Snapshot.jobs, a[1]).id, a[2])
                               \in Feasible(m)
            /\ left < EndOfDayWindow =>
                   \A fa \in Feasible(m) : Duration(fa.task_mode_id) <= left

\* 50 or more steps are left and an action longer than that is returned.
C10_Witness ==
    LET left == DayLength - (current_step % DayLength)
    IN  /\ left >= EndOfDayWindow
        /\ \E m \in MachineIds : \E fa \in Feasible(m) : Duration(fa.task_mode_id) > left

\* The report and the outcome of a Factory.step call made in this state.
StepReport == step(Factory)

\* C11: the step_power_cost a step call reports is max(0, machines_power_consumed
\* - solar_available) * grid_cost at the step counter before the increment, and
\* it is 0 whenever the power consumed is no more than the solar power available.
C11_StepCostFormula ==
    StepReport.error = "" =>
        LET info == StepReport.info[1]
            solar == get_solar_power_available(current_step)
            grid == get_grid_power_cost(current_step)
            needed == info.machines_power_consumed - solar
        IN  /\ info.solar_available = solar
            /\ info.grid_cost = grid
            /\ info.step_power_cost = (IF needed > 0 THEN needed ELSE 0) * grid
            /\ info.machines_power_consumed <= solar => info.step_power_cost = 0

\* A step call reports a cost above 0 for power only partly covered by solar.
C11_Witness ==
    /\ StepReport.error = ""
    /\ StepReport.info[1].solar_available > 0
    /\ StepReport.info[1].machines_power_consumed > StepReport.info[1].solar_available
    /\ StepReport.info[1].step_power_cost > 0
    /\ StepReport.info[1].step_power_cost
           < StepReport.info[1].machines_power_consumed * StepReport.info[1].grid_cost

\* The map scheduler s returns on the snapshot: <<machine id, None or Some(action)>>.
Chosen(s) == choose(s, Snapshot, hash_order)

\* C12: the map one choose call of a Greedy or Rule-Based scheduler returns holds
\* no two actions, for two different machines, with the same job id.
C12_NoJobOnTwoMachines ==
    \A s \in Schedulers :
        \A i, k \in DOMAIN Chosen(s) :
            (i /= k /\ Chosen(s)[i][2] /= None /\ Chosen(s)[k][2] /= None)
                => Chosen(s)[i][2][1].job_id /= Chosen(s)[k][2][1].job_id

\* A job is chosen for one machine while another idle machine has a feasible
\* action of the same job.
C12_Witness ==
    \E s \in Schedulers : \E i, k \in DOMAIN Chosen(s) :
        /\ i /= k
        /\ Chosen(s)[i][2] /= None
        /\ \E fa \in Feasible(Chosen(s)[k][1]) :
               fa.job_id = Chosen(s)[i][2][1].job_id

\* C13: RuleBasedScheduler.choose returns the same map for the same snapshot and
\* configuration, whatever order the set of feasible task modes is listed in.
C13_RuleBasedIsDeterministic ==
    \A s \in Schedulers :
        s.kind = "rule_based" =>
            \A o1, o2 \in HashOrders : choose(s, Snapshot, o1) = choose(s, Snapshot, o2)

\* The scenario of C15 starts here: a single job of a single operation that the
\* four-step mode TM_D of power 2 can run, every machine idle, and for four steps
\* no solar power and a grid price of 1.
ScenarioStart ==
    /\ Len(jobs) = 1
    /\ Len(jobs[1].operations) = 1
    /\ ~jobs[1].being_processed /\ ~jobs[1].done
    /\ ~jobs[1].operations[1].started /\ ~jobs[1].operations[1].done
    /\ "TM_D" \in Range(tasks[jobs[1].operations[1].task_id])
    /\ \A m \in MachineIds : machine_runtimes_map[m] = IdleRuntime
    /\ \A t \in current_step..(current_step + 3) :
           get_solar_power_available(t) = 0 /\ get_grid_power_cost(t) = 1

\* The scenario run on machine m: the dispatch, then four step calls.
ScenarioDispatch(m) ==
    dispatch_operation(Factory, m, jobs[1].id, jobs[1].operations[1].id, "TM_D")
ScenarioStep1(m) == step(ScenarioDispatch(m).factory)
ScenarioStep2(m) == step(ScenarioStep1(m).factory)
ScenarioStep3(m) == step(ScenarioStep2(m).factory)
ScenarioStep4(m) == step(ScenarioStep3(m).factory)

ScenarioOutcome(m) ==
    /\ ScenarioDispatch(m).error = ""
    /\ ScenarioStep1(m).error = "" /\ ScenarioStep2(m).error = ""
    /\ ScenarioStep3(m).error = "" /\ ScenarioStep4(m).error = ""
    /\ ScenarioStep1(m).info[1].step_power_cost + ScenarioStep2(m).info[1].step_power_cost
         + ScenarioStep3(m).info[1].step_power_cost
         + ScenarioStep4(m).info[1].step_power_cost = 8
    /\ ~ScenarioStep3(m).factory.jobs[1].operations[1].done
    /\ ScenarioStep3(m).factory.machine_runtimes_map[m].busy
    /\ ScenarioStep4(m).factory.jobs[1].operations[1].done
    /\ ScenarioStep4(m).factory.jobs[1].done
    /\ ScenarioStep4(m).factory.machine_runtimes_map[m] = IdleRuntime

\* C15: one job of one operation, the mode of power [2,2,2,2], grid price 1 and
\* no solar: dispatching it to a machine and stepping 4 times costs 8 in total
\* and leaves the operation and the job done and the machine idle; after 3 steps
\* the operation is not done and the machine is busy.
C15_FourStepScenario ==
    ScenarioStart => \A m \in MachineIds : ScenarioOutcome(m)

\* The scenario starts in this state and runs to its end on machine M1.
C15_Witness ==
    ScenarioStart /\ ScenarioOutcome("M1")

\* Job j has an operation that machine m can take in this tick.
Eligible(j, m) ==
    /\ ~jobs[j].being_processed /\ ~jobs[j].done
    /\ \E o \in DOMAIN jobs[j].operations :
           /\ ~jobs[j].operations[o].started /\ ~jobs[j].operations[o].done
           /\ \E fa \in Feasible(m) :
                  fa.job_id = jobs[j].id /\ fa.operation_id = jobs[j].operations[o].id

\* Machine m is the single idle machine and two or more jobs contend for it.
Contention(m) ==
    /\ {k \in MachineIds : ~Runtime(k).busy} = {m}
    /\ Cardinality({j \in DOMAIN jobs : Eligible(j, m)}) >= 2

\* The factory after the driver's scheduler chose on the snapshot and the choice
\* was applied.
Tick == apply_actions(Factory, choose(scheduler, Snapshot, hash_order))

C17_OperationIdsAreUnique ==
    \A j \in DOMAIN jobs : \A o1, o2 \in DOMAIN jobs[j].operations :
        o1 /= o2 => jobs[j].operations[o1].id /= jobs[j].operations[o2].id

\* The error of the first check violated, in the order: job not being processed,
\* job not done, operation not done, operation not started, mode supported by
\* the operation's task, machine known, machine not busy.
FirstViolated(machine_id, j, r, task_mode_id) ==
    IF jobs[j].being_processed THEN "job is already being processed"
    ELSE IF jobs[j].done THEN "job is done"
    ELSE IF OperationAt(jobs, r).done THEN "operation is already done"
    ELSE IF OperationAt(jobs, r).started THEN "operation is already started"
    ELSE IF task_mode_id \notin Range(tasks[OperationAt(jobs, r).task_id])
    THEN "task mode not available for task"
    ELSE IF machine_id \notin MachineIds THEN "machine not found"
    ELSE IF Runtime(machine_id).busy THEN "machine is already busy"
    ELSE ""

\* The jobs whose id names them, and the operations whose id names them.
NamedByTheirId ==
    {r \in OperationRefs(jobs) :
        /\ get_job_by_id(Factory, jobs[r[1]].id) = r[1]
        /\ get_operation_by_id(Factory, OperationAt(jobs, r).id) = Some(r)}

\* C18: dispatch_operation signals the error of the first violated check in the
\* order above (here for calls that name a job that is not done and one of its
\* own operations).
C18_ErrorOfFirstViolatedCheck ==
    \A r \in NamedByTheirId :
        \A machine_id \in MachineIds \cup {UnknownMachineId}, task_mode_id \in TaskModeIds :
            ~jobs[r[1]].done =>
                dispatch_operation(Factory, machine_id, jobs[r[1]].id,
                                   OperationAt(jobs, r).id, task_mode_id).error
                    = FirstViolated(machine_id, r[1], r, task_mode_id)

\* C19: a dispatch_operation call that signals an error leaves the factory as
\* it was: jobs, operations, machine runtimes and step counter.
C19_FailedDispatchChangesNothing ==
    \A machine_id \in MachineIds \cup {UnknownMachineId},
       job_id \in JobIds \cup {UnknownJobId},
       operation_id \in OperationIds \cup {UnknownOperationId},
       task_mode_id \in TaskModeIds :
        LET d == dispatch_operation(Factory, machine_id, job_id, operation_id,
                                    task_mode_id)
        IN  d.error /= "" => d.factory = Factory

\* A call fails the last check, on an operation already started, while a
\* machine is busy and a job is being processed.
C19_Witness ==
    /\ \E m \in MachineIds : Runtime(m).busy
    /\ \E machine_id \in MachineIds, job_id \in JobIds, operation_id \in OperationIds,
          task_mode_id \in TaskModeIds :
           dispatch_operation(Factory, machine_id, job_id, operation_id,
                              task_mode_id).error = "operation is already started"

\* C20: a dispatch_operation call naming a done job is rejected, whatever
\* operation, machine and mode it names, and a done job is not being processed.
C20_DoneJobIsRejected ==
    \A j \in DOMAIN jobs :
        (jobs[j].done /\ get_job_by_id(Factory, jobs[j].id) = j) =>
            /\ ~jobs[j].being_processed
            /\ \A machine_id \in MachineIds, operation_id \in OperationIds,
                  task_mode_id \in TaskModeIds :
                   dispatch_operation(Factory, machine_id, jobs[j].id, operation_id,
                                      task_mode_id).error /= ""

\* The greatest fitness in the scheduler's population.
PopulationBest(s) == FittestOf(s.population).fitness

\* C14: in GeneticScheduler.schedule the fitness of the tracked best individual
\* never decreases, and with elitism_count >= 1 the greatest fitness in the
\* evaluated population never decreases from one generation to the next.
C14_BestFitnessNeverDecreases ==
    [][/\ (scheduler.best_individual /= None /\ scheduler'.best_individual /= None)
            => ~FitnessLess(scheduler'.best_individual[1].fitness,
                            scheduler.best_individual[1].fitness)
       /\ (scheduler.elitism_count >= 1 /\ scheduler.pc \in {"generation", "breed"}
              /\ scheduler'.pc \in {"generation", "breed"})
            => ~FitnessLess(PopulationBest(scheduler'), PopulationBest(scheduler))]_vars

\* After a generation with an elite, the population holds an individual less fit
\* than the tracked best one, and the tracked best is as fit as the population's.
C14_Witness ==
    /\ scheduler.kind = "genetic"
    /\ scheduler.pc = "generation"
    /\ scheduler.generation >= 1
    /\ scheduler.elitism_count >= 1
    /\ \E i \in DOMAIN scheduler.population :
           FitnessLess(scheduler.population[i].fitness,
                       scheduler.best_individual[1].fitness)
    /\ PopulationBest(scheduler) = scheduler.best_individual[1].fitness


\* The FactoryState a strategy holds, as it reports itself now.
HeldReport == Reported(scheduler.factory_state)

\* A call on the live Factory is made while a FactoryState is held.
LiveCall ==
    /\ scheduler.kind = "holding"
    /\ last'.call \in {"dispatch_operation", "apply_actions", "step"}

\* C21: a FactoryState never aliases live Factory objects: a dispatch, apply or
\* step call on the Factory leaves the current step, the job and operation flags
\* and the machine busy flags the held FactoryState reports unchanged, and so the
\* feasible actions of every machine and every strategy's choice on it; a write to
\* a job or operation obtained from the FactoryState leaves the Factory's jobs
\* unchanged.
C21_SnapshotNeverAliasesFactory ==
    [][/\ LiveCall =>
            LET before == HeldReport
                after == HeldReport'
            IN  /\ after = before
                /\ \A m \in MachineIds :
                       get_feasible_actions(after, hash_order, m)
                           = get_feasible_actions(before, hash_order, m)
                /\ \A s \in Schedulers :
                       choose(s, after, hash_order) = choose(s, before, hash_order)
       /\ (scheduler.kind = "holding" /\ last'.call = "write") => jobs' = jobs]_vars

\* A FactoryState is held whose report differs from the Factory's state in the
\* step, an operation's flags and a machine's busy flag after calls on the
\* Factory, and in a job's done flag after a write through the FactoryState.
C21_Witness ==
    /\ scheduler.kind = "holding"
    /\ HeldReport.current_step /= current_step
    /\ \E r \in OperationRefs(jobs) :
           OperationAt(jobs, r).started /\ ~OperationAt(HeldReport.jobs, r).started
    /\ \E m \in MachineIds : HeldReport.machine_busy[m] /= machine_runtimes_map[m].busy
    /\ \E j \in DOMAIN jobs : HeldReport.jobs[j].done /\ ~jobs[j].done

\* C22: after construction a FactoryState rejects every attempt to alter it: a
\* write to one of its fields fails with an error, and no write through its
\* accessors (the jobs tuple and the Job and Operation objects in it) changes
\* what the FactoryState reports.
C22_SnapshotRejectsEveryWrite ==
    [][/\ (scheduler.kind = "holding" /\ last'.call = "setattr")
            => last'.error /= "" /\ HeldReport' = HeldReport
       /\ (scheduler.kind = "holding" /\ last'.call = "write")
            => HeldReport' = HeldReport]_vars

\* The individuals of the genetic scheduler's current and next population.
Individuals == Range(scheduler.population) \cup Range(scheduler.new_population)

\* The operations of all jobs of the snapshot, as <<job id, operation>>.
SnapshotOperations == all_operations_from(Snapshot, 1, 1)

\* Every operation of the snapshot has a machine with a catalog-feasible mode.
EveryOperationIsFeasible ==
    \A k \in DOMAIN SnapshotOperations : GeneChoices(SnapshotOperations[k][2]) /= {}

\* The triples or actions of a list name every operation of the snapshot once.
OncePerOperation(ids) ==
    /\ Len(ids) = Len(SnapshotOperations)
    /\ \A k \in DOMAIN SnapshotOperations :
           Cardinality({i \in DOMAIN ids : ids[i] = SnapshotOperations[k][2].id}) = 1

\* C23: every genome in every generation of GeneticScheduler.schedule, and the
\* returned Action list, contains exactly one triple per operation of the
\* snapshot when every operation has a catalog-feasible machine: no operation id
\* appears twice and none is missing.
C23_OneTriplePerOperation ==
    EveryOperationIsFeasible =>
        /\ \A individual \in Individuals :
               OncePerOperation([i \in DOMAIN individual.genome |->
                                    individual.genome[i][1]])
        /\ scheduler.pc = "returned" =>
               OncePerOperation([i \in DOMAIN scheduler.scheduled_actions |->
                                    scheduler.scheduled_actions[i].operation_id])

\* The mode of a triple is one of its machine's modes and of the modes of the
\* task of its operation.
FeasibleTriple(gene) ==
    LET found == get_operation_by_id(Snapshot, gene[1])
    IN  /\ found /= None
        /\ gene[2] \in MachineIds
        /\ gene[3] \in Range(machines[gene[2]])
        /\ gene[3] \in Range(tasks[OperationAt(jobs, found[1]).task_id])

\* C24: in every genome of every generation every triple (operation, machine,
\* mode) is catalog-feasible: creation, crossover and mutation never produce an
\* infeasible triple.
C24_EveryTripleIsFeasible ==
    \A individual \in Individuals :
        \A i \in DOMAIN individual.genome : FeasibleTriple(individual.genome[i])

\* A child was bred whose genome no individual of the population has.
C24_Witness ==
    /\ scheduler.pc = "breed"
    /\ scheduler.mutation_rate
    /\ Len(scheduler.new_population) > scheduler.elitism_count
    /\ \E i \in DOMAIN scheduler.new_population :
           /\ i > scheduler.elitism_count
           /\ scheduler.new_population[i].genome /= <<>>
           /\ \A k \in DOMAIN scheduler.population :
                  scheduler.new_population[i].genome /= scheduler.population[k].genome

\* The Action list decoded from an individual's genome.
Decoded(individual) == decode_genome_to_actions(Snapshot, individual.genome)

\* The greatest number of a set of natural numbers, 0 for the empty set.
Greatest(S) == IF S = {} THEN 0 ELSE CHOOSE x \in S : \A y \in S : y <= x

\* Action k ends its mode's duration after its start, and starts when its
\* machine is free and the operations of its job placed before it have ended.
PlacedInTurn(actions, k) ==
    LET action == actions[k]
        machine_free == Greatest({actions[i].end_step : i \in
                            {i \in 1..(k - 1) : actions[i].machine_id = action.machine_id}})
        job_free == Greatest({actions[i].end_step : i \in
                        {i \in 1..(k - 1) : actions[i].job_id = action.job_id}})
    IN  /\ action.end_step = action.start_step + Duration(action.task_mode_id)
        /\ action.start_step = Greatest({machine_free, job_free})

\* No two actions of one machine and no two actions of one job overlap in time.
NoOverlap(actions) ==
    \A i, k \in DOMAIN actions :
        (i < k /\ (actions[i].machine_id = actions[k].machine_id
                     \/ actions[i].job_id = actions[k].job_id))
            => actions[i].end_step <= actions[k].start_step

\* C27: in the Action list decoded from any genome each action has end_step =
\* start_step + the duration of its mode, its start_step is the maximum of its
\* machine's free time and the end steps of the operations of its job placed
\* before it, and so no two actions of a machine and no two actions of a job
\* overlap in time.
C27_DecodedActionsDoNotOverlap ==
    \A individual \in Individuals :
        /\ \A k \in DOMAIN Decoded(individual) : PlacedInTurn(Decoded(individual), k)
        /\ NoOverlap(Decoded(individual))

\* A genome is decoded in which an operation on an idle machine waits for an
\* operation of its job, and another in which it waits for its machine.
C27_Witness ==
    /\ \E individual \in Individuals : \E i, k \in DOMAIN Decoded(individual) :
           LET actions == Decoded(individual)
           IN  /\ i < k
               /\ actions[i].job_id = actions[k].job_id
               /\ actions[i].machine_id /= actions[k].machine_id
               /\ actions[k].start_step = actions[i].end_step
               /\ actions[k].start_step > 0
    /\ \E individual \in Individuals : \E i, k \in DOMAIN Decoded(individual) :
           LET actions == Decoded(individual)
           IN  /\ i < k
               /\ actions[i].machine_id = actions[k].machine_id
               /\ actions[k].start_step = actions[i].end_step
               /\ actions[k].start_step > 0

\* C28: the genetic decoder enforces deadlines: in the Action list decoded from
\* any genome, every action whose operation has a deadline has end_step <= that
\* deadline.
C28_DecodedActionsMeetDeadlines ==
    \A individual \in Individuals : \A k \in DOMAIN Decoded(individual) :
        LET action == Decoded(individual)[k]
            operation == OperationAt(jobs, get_operation_by_id(Snapshot,
                                               action.operation_id)[1])
        IN  operation.deadline /= None => action.end_step <= operation.deadline[1]

\* C29: in each generation the elitism_count individuals of highest fitness are
\* carried into the next population with genome and fitness unchanged, and
\* neither crossover nor mutation of a child changes the genome of an individual
\* of the current population or of the elites.
C29_ElitesAndParentsAreUnchanged ==
    [][scheduler.pc = "breed" =>
          /\ \A i \in 1..scheduler.elitism_count :
                 /\ scheduler.new_population[i].genome = scheduler.population[i].genome
                 /\ scheduler.new_population[i].fitness = scheduler.population[i].fitness
                 /\ \A k \in DOMAIN scheduler.population :
                        k > scheduler.elitism_count =>
                            ~FitnessLess(scheduler.population[i].fitness,
                                         scheduler.population[k].fitness)
          /\ scheduler'.pc = "breed" =>
                 /\ \A i \in DOMAIN scheduler.population :
                        scheduler'.population[i].genome = scheduler.population[i].genome
                 /\ \A i \in DOMAIN scheduler.new_population :
                        scheduler'.new_population[i] = scheduler.new_population[i]
          /\ scheduler'.pc = "generation" =>
                 \A i \in 1..scheduler.elitism_count :
                     /\ scheduler'.population[i].genome = scheduler.population[i].genome
                     /\ scheduler'.population[i].fitness = scheduler.population[i].fitness]_vars

\* In the second generation the elite of a population of different fitnesses is
\* kept beside a mutated child whose genome differs from it.
C29_Witness ==
    /\ scheduler.pc = "breed"
    /\ scheduler.generation >= 1
    /\ scheduler.elitism_count >= 1
    /\ Len(scheduler.new_population) > scheduler.elitism_count
    /\ FitnessLess(scheduler.population[Len(scheduler.population)].fitness,
                   scheduler.population[1].fitness)
    /\ scheduler.new_population[1].genome = scheduler.population[1].genome
    /\ scheduler.new_population[Len(scheduler.new_population)].genome
           /= scheduler.population[1].genome

\* C30: when mutation is applied to a child whose chosen gene's operation has more
\* than one catalog-feasible (machine, mode) pair, the gene's pair after the
\* mutation differs from the pair before it, and exactly one gene of the child
\* changes.
C30_MutationChangesOneGene ==
    \A individual \in Individuals : \A mutation_index \in DOMAIN individual.genome :
        LET found == get_operation_by_id(Snapshot, individual.genome[mutation_index][1])
        IN  (found /= None /\ Cardinality(GeneChoices(OperationAt(jobs, found[1]))) > 1)
            => \A mutated \in mutate_at(Snapshot, individual, mutation_index) :
                   /\ mutated.genome[mutation_index] /= individual.genome[mutation_index]
                   /\ \A k \in DOMAIN individual.genome :
                          k /= mutation_index => mutated.genome[k] = individual.genome[k]

\* An action map with the actions of the entries exchanged between the keys.
Exchanged(actions) ==
    [i \in DOMAIN actions |-> <<actions[i][1], actions[Len(actions) + 1 - i][2]>>]

\* The action maps applied: the schedulers' choices, in both orders of the keys,
\* and with the actions exchanged between the keys; the map with every entry
\* None, in both orders; the empty map.
ActionMaps ==
    LET chosen == {Chosen(s) : s \in Schedulers}
        maps == chosen \cup {Exchanged(actions) : actions \in chosen}
                    \cup {[i \in DOMAIN MachineOrder |-> <<MachineOrder[i], None>>], <<>>}
    IN  maps \cup {[i \in DOMAIN actions |-> actions[Len(actions) + 1 - i]] :
                      actions \in maps}

\* dispatch_operation for the entry <<machine id, Some(action)>> of a map.
DispatchOfEntry(f, entry) ==
    dispatch_operation(f, entry[1], entry[2][1].job_id, entry[2][1].operation_id,
                       entry[2][1].task_mode_id)

\* C25: apply_actions dispatches every non-null action of the map, in the map's
\* iteration order, by a dispatch_operation call with the map key as machine id
\* (an error of a dispatch ends the call); a null entry changes nothing, and an
\* empty or all-null map leaves the Factory state unchanged.
C25_ApplyActionsDispatchesInMapOrder ==
    \A actions \in ActionMaps :
        LET NonNull(entry) == entry[2] /= None
            present == SelectSeq(actions, NonNull)
            applied == apply_actions(Factory, actions)
        IN  /\ applied = apply_actions(Factory, present)
            /\ present = <<>> => applied = Return(Factory)
            /\ Len(present) = 1 => applied = DispatchOfEntry(Factory, present[1])
            /\ Len(present) = 2 =>
                   LET first == DispatchOfEntry(Factory, present[1])
                   IN  applied = IF first.error /= "" THEN first
                                 ELSE DispatchOfEntry(first.factory, present[2])

\* A map of two actions is applied and both are dispatched, and a map whose
\* action names another machine than its key is applied and dispatched on the
\* machine of the key.
C25_Witness ==
    /\ \E actions \in ActionMaps :
           /\ Len(actions) = 2 /\ actions[1][2] /= None /\ actions[2][2] /= None
           /\ apply_actions(Factory, actions).error = ""
           /\ \A m \in MachineIds :
                  apply_actions(Factory, actions).factory.machine_runtimes_map[m].busy
    /\ \E actions \in ActionMaps : \E i \in DOMAIN actions :
           /\ actions[i][2] /= None
           /\ actions[i][2][1].machine_id /= actions[i][1]
           /\ apply_actions(Factory, actions).error = ""
           /\ apply_actions(Factory, actions).factory.machine_runtimes_map[actions[i][1]].busy
           /\ ~machine_runtimes_map[actions[i][1]].busy

\* The ids of the jobs at the positions of a set, in the order of the list.
IdsOf(js, positions) ==
    LET At(j) == j \in positions
    IN  [i \in DOMAIN SelectSeq([j \in DOMAIN js |-> j], At) |->
            js[SelectSeq([j \in DOMAIN js |-> j], At)[i]].id]

\* The report of a step call names as newly completed the jobs that are not done
\* before the call and done after it, each by an id no other such job and no job
\* done before carries; a newly completed job with operations has all of them done
\* after the call and one of them not before; completed_jobs are the jobs done
\* after the call.
ReportNamesCompletions ==
    LET info == StepReport.info[1]
        after == StepReport.factory.jobs
        newly == info.newly_completed_jobs
        ids == IdsOf(jobs, newly)
    IN  /\ newly = {j \in DOMAIN jobs : ~jobs[j].done /\ after[j].done}
        /\ \A i, k \in DOMAIN ids : i /= k => ids[i] /= ids[k]
        /\ \A j \in DOMAIN jobs :
               jobs[j].done => \A i \in DOMAIN ids : ids[i] /= jobs[j].id
        /\ \A j \in newly :
               /\ AllOperationsDone(after[j])
               /\ jobs[j].operations /= <<>> =>
                      \E o \in DOMAIN jobs[j].operations :
                          ~jobs[j].operations[o].done /\ after[j].operations[o].done
        /\ info.completed_jobs = {j \in DOMAIN jobs : after[j].done}
        /\ newly \subseteq info.completed_jobs

\* C26: over any run of the Factory each job id appears in the
\* newly_completed_jobs of exactly one step report, the report of the step call
\* in which the job's last unfinished operation completes (a done job stays done
\* and is not reported again); in every report completed_jobs is the set of done
\* jobs and newly_completed_jobs is a subset of it.
C26_JobIsReportedCompleteOnce ==
    [][/\ \A j \in DOMAIN jobs : jobs[j].done => jobs'[j].done
       /\ (last'.call = "step" /\ last'.error = "") => ReportNamesCompletions]_vars

\* A step call has just reported a job newly completed beside a job completed
\* before, and the next step call reports none newly completed and both completed.
C26_Witness ==
    /\ last.call = "step" /\ last.error = ""
    /\ \E j, k \in DOMAIN jobs : j /= k /\ jobs[j].done /\ jobs[k].done
    /\ \E j \in DOMAIN jobs : \E o \in DOMAIN jobs[j].operations : jobs[j].done
    /\ StepReport.error = ""
    /\ StepReport.info[1].newly_completed_jobs = {}
    /\ Cardinality(StepReport.info[1].completed_jobs) >= 2


\* The quantity a greedy type compares, and whether a beats b under that type.
Metric(greedy_type, fa) ==
    IF greedy_type \in {"min_power", "max_power"} THEN TotalPower(fa) ELSE Steps(fa)

Beats(greedy_type, a, b) ==
    IF greedy_type \in {"min_power", "min_steps"} THEN a < b ELSE a > b

GreedyTypes == {"min_power", "min_steps", "max_power", "max_steps"}

\* The job ids claimed by the entries before entry k of a choice.
ClaimedBefore(chosen, k) ==
    {chosen[i][2][1].job_id : i \in {n \in 1..(k - 1) : chosen[n][2] /= None}}

\* The feasible actions of the machine of entry k whose job is not yet claimed.
Unclaimed(chosen, k) ==
    LET NotClaimed(fa) == fa.job_id \notin ClaimedBefore(chosen, k)
    IN  SelectSeq(get_feasible_actions(Snapshot, hash_order, chosen[k][1]),
                  NotClaimed)

\* Entry k of a greedy choice is the first extremal unclaimed feasible action
\* of its machine, stamped with the current step and the mode's duration.
GreedyEntryIsExtremal(greedy_type, chosen, k) ==
    LET available == Unclaimed(chosen, k)
    IN  IF available = <<>> THEN chosen[k][2] = None
        ELSE /\ chosen[k][2] /= None
             /\ LET action == chosen[k][2][1]
                IN  /\ action.machine_id = chosen[k][1]
                    /\ action.start_step = current_step
                    /\ action.end_step = current_step + Duration(action.task_mode_id)
                    /\ \E i \in DOMAIN available :
                          /\ available[i].job_id = action.job_id
                          /\ available[i].operation_id = action.operation_id
                          /\ available[i].task_mode_id = action.task_mode_id
                          /\ \A n \in DOMAIN available :
                                /\ ~Beats(greedy_type,
                                          Metric(greedy_type, available[n]),
                                          Metric(greedy_type, available[i]))
                                /\ n < i => Beats(greedy_type,
                                                  Metric(greedy_type, available[i]),
                                                  Metric(greedy_type, available[n]))

\* C31: for every greedy type and every machine, the action Greedy chooses is
\* the first, in feasibility enumeration order, of the machine's feasible
\* actions on unclaimed jobs that is extremal under the type's metric (None when
\* there is none), and it starts at the current step and ends after the mode's
\* duration.
C31_GreedyChoiceIsFirstExtremal ==
    \A greedy_type \in GreedyTypes :
        LET chosen == Chosen(Greedy(greedy_type))
        IN  \A k \in DOMAIN chosen :
                /\ chosen[k][1] = MachineOrder[k]
                /\ GreedyEntryIsExtremal(greedy_type, chosen, k)

\* A choice where the first machine has two unclaimed actions tied on the metric
\* and the second machine's choice had to skip the job the first one claimed.
C31_Witness ==
    \E greedy_type \in GreedyTypes :
        LET chosen == Chosen(Greedy(greedy_type))
        IN  /\ Len(chosen) >= 2
            /\ chosen[1][2] /= None
            /\ chosen[2][2] /= None
            /\ Len(Unclaimed(chosen, 2))
                   < Len(get_feasible_actions(Snapshot, hash_order, chosen[2][1]))
            /\ \E i, n \in DOMAIN Unclaimed(chosen, 1) :
                  /\ i < n
                  /\ Unclaimed(chosen, 1)[i].operation_id = chosen[1][2][1].operation_id
                  /\ Unclaimed(chosen, 1)[i].task_mode_id = chosen[1][2][1].task_mode_id
                  /\ Metric(greedy_type, Unclaimed(chosen, 1)[i])
                        = Metric(greedy_type, Unclaimed(chosen, 1)[n])


\* C32: step_power on an idle runtime returns 0 and changes nothing; on a busy
\* runtime it returns the power value at the cursor, moves the cursor one step
\* on and takes one from the remaining steps, so the cursor and the remaining
\* steps always add up to the length of the mode's power sequence.
C32_StepPowerConsumesSequence ==
    \A m \in MachineIds :
        LET rt == machine_runtimes_map[m]
            result == step_power(Factory, m)
            after == result.factory.machine_runtimes_map[m]
        IN  IF ~rt.busy
            THEN /\ result.error = ""
                 /\ result.power = 0
                 /\ result.factory = Factory
            ELSE /\ result.error = ""
                 /\ rt.operation_step + rt.remaining_operation_steps
                       = Len(rt.power_sequence[1])
                 /\ result.power = rt.power_sequence[1][rt.operation_step + 1]
                 /\ \/ /\ rt.remaining_operation_steps = 1
                       /\ after = IdleRuntime
                    \/ /\ rt.remaining_operation_steps > 1
                       /\ after = [rt EXCEPT
                              !.operation_step = rt.operation_step + 1,
                              !.remaining_operation_steps =
                                  rt.remaining_operation_steps - 1]


\* C33: on a snapshot with at least one job, GeneticScheduler.schedule never
\* raises: it is still running or it has returned its action list after the
\* last generation.
C33_ScheduleNeverRaises ==
    jobs /= <<>> =>
        /\ scheduler.pc /= "raised"
        /\ last.call = "schedule" =>
              /\ last.error = ""
              /\ scheduler.generation = scheduler.generations


\* The step counter at which a busy runtime will have used up its power list.
CompletionStep(t, rt) == t + rt.remaining_operation_steps

\* A successful apply_actions of the driver starts every chosen action on its
\* machine, at the action's start_step and with its end_step as completion step.
ChosenActionsAreStamped ==
    (last'.call = "apply_actions" /\ last'.error = "") =>
        \A k \in DOMAIN Chosen(scheduler) :
            Chosen(scheduler)[k][2] /= None =>
                LET action == Chosen(scheduler)[k][2][1]
                    rt == machine_runtimes_map'[action.machine_id]
                IN  /\ rt.busy
                    /\ OperationAt(jobs', rt.operation[1]).id = action.operation_id
                    /\ action.start_step = current_step'
                    /\ action.end_step = CompletionStep(current_step', rt)

\* A step call keeps the completion step of every busy machine: the operation
\* stays busy and not done while the counter is below it, and is done, with
\* its machine idle, when the counter reaches it.
StepKeepsCompletionStep ==
    last'.call = "step" =>
        \A m \in MachineIds :
            machine_runtimes_map[m].busy =>
                LET rt == machine_runtimes_map[m]
                    after == machine_runtimes_map'[m]
                    operation == OperationAt(jobs', rt.operation[1])
                IN  IF after.busy
                    THEN /\ after.operation = rt.operation
                         /\ CompletionStep(current_step', after)
                               = CompletionStep(current_step, rt)
                         /\ current_step' < CompletionStep(current_step', after)
                         /\ ~operation.done
                    ELSE /\ operation.done
                         /\ current_step' = CompletionStep(current_step, rt)

\* C34: the end_step of an action chosen by Greedy or Rule-Based on the
\* snapshot of a step and applied before that step's step call is the value of
\* the step counter when the operation becomes done and its machine idle; the
\* operation is busy for end_step - start_step step calls.
C34_EndStepIsCompletionStep ==
    [][ChosenActionsAreStamped /\ StepKeepsCompletionStep]_vars


\* The jobs an add_jobs call has appended: those one build_jobs call returned.
BuiltJobs == SubSeq(jobs', Len(jobs) + 1, Len(jobs'))

\* C35: the job ids produced by one build_jobs call are pairwise distinct,
\* whatever the product requests, two requests for one product with one
\* deadline included.
C35_BuiltJobIdsAreDistinct ==
    [][last'.call = "add_jobs" =>
          \A i, k \in DOMAIN BuiltJobs :
              i /= k => BuiltJobs[i].id /= BuiltJobs[k].id]_vars


\* The operation ids of the job an id is resolved to.
OperationIdsOf(f, job_id) ==
    LET job == f.jobs[get_job_by_id(f, job_id)]
    IN  {job.operations[o].id : o \in DOMAIN job.operations}

\* C36: dispatch_operation succeeds only if the operation is one of the named
\* job's operations, so no job is marked as being processed on behalf of an
\* operation of another job.
C36_DispatchNeedsOwnOperation ==
    \A machine_id \in MachineIds, job_id \in JobIds,
       operation_id \in OperationIds, task_mode_id \in TaskModeIds :
        LET d == dispatch_operation(Factory, machine_id, job_id, operation_id,
                                    task_mode_id)
        IN  d.error = "" =>
                /\ operation_id \in OperationIdsOf(Factory, job_id)
                /\ d.factory.machine_runtimes_map[machine_id].operation[1][1]
                      = d.factory.machine_runtimes_map[machine_id].job[1]


(***************************************************************************)
(* The driver loop as a running program: a call that can be made is made.  *)
(***************************************************************************)
\* The loop has a next call to make: add_jobs after construction, choose and
\* apply while the loop condition holds, step after a successful apply. An
\* exception ends the run.
CanCall ==
    \/ last.call = "init"
    \/ last.call \in {"add_jobs", "step"} /\ last.error = "" /\ LoopCondition
    \/ last.call = "apply_actions" /\ last.error = ""

\* The loop makes its next call, whatever the call does: every step of
\* DriverNext is such a step, and one is possible exactly when DriverNext is.
NextCall ==
    /\ CanCall
    /\ last' \in {Called(call, error) :
                      call \in {"add_jobs", "apply_actions", "step"},
                      error \in {"", "ValueError", "IndexError"}}
    /\ last'.call = (CASE last.call = "init" -> "add_jobs"
                       [] last.call = "apply_actions" -> "step"
                       [] OTHER -> "apply_actions")

FairDriverSpec == DriverSpec /\ WF_last(NextCall)

\* No operation has a deadline, and every operation has a machine with a mode
\* the catalog allows for its task.
NoDeadlineAndAllFeasible ==
    \A r \in OperationRefs(jobs) :
        /\ OperationAt(jobs, r).deadline = None
        /\ \E machine_id \in MachineIds :
              get_feasible_task_modes(hash_order, machine_id,
                                      OperationAt(jobs, r)) /= <<>>

AllStartedAndDone ==
    \A r \in OperationRefs(jobs) :
        OperationAt(jobs, r).started /\ OperationAt(jobs, r).done

\* C37: when no operation has a deadline and every operation is feasible on
\* some machine, the driver loop eventually reaches a state where
\* Factory.done() is true and every operation was started and completed.
C37_DriverReachesDone ==
    (last.call = "add_jobs" /\ NoDeadlineAndAllFeasible)
        ~> (done(Factory) /\ AllStartedAndDone)


\* The modes the catalog allows for an operation on some machine.
CatalogFeasibleModes(operation) ==
    UNION {Range(get_feasible_task_modes(hash_order, machine_id, operation)) :
              machine_id \in MachineIds}

\* An operation with a deadline, not started, that even its shortest
\* catalog-feasible mode no longer finishes in time when started at step t.
Late(js, t, r) ==
    LET operation == OperationAt(js, r)
    IN  /\ ~operation.started
        /\ operation.deadline /= None
        /\ CatalogFeasibleModes(operation) /= {}
        /\ \A mode_id \in CatalogFeasibleModes(operation) :
              t + Duration(mode_id) > operation.deadline[1]

\* No machine's feasible actions include the operation.
AbsentFromEveryMachine(r) ==
    \A machine_id \in MachineIds :
        /\ get_feasible_actions_for_operation(Snapshot, hash_order, machine_id,
                                              jobs[r[1]], OperationAt(jobs, r)) = <<>>
        /\ \A i \in DOMAIN get_feasible_actions(Snapshot, hash_order, machine_id) :
              get_feasible_actions(Snapshot, hash_order, machine_id)[i].operation_id
                  /= OperationAt(jobs, r).id

\* C38: an unstarted operation that can no longer finish by its deadline is
\* offered to no machine, at that step and at every later one, so under the
\* driver loop it stays unstarted, its job is never done and Factory.done()
\* never becomes true.
C38_LateOperationIsNeverOffered ==
    [][\A r \in OperationRefs(jobs) :
          Late(jobs, current_step, r) =>
              /\ AbsentFromEveryMachine(r)
              /\ ~jobs[r[1]].done
              /\ ~done(Factory)
              /\ Late(jobs', current_step', r)
              /\ ~jobs'[r[1]].done
              /\ ~done(FactoryOf(jobs', current_step', machine_runtimes_map'))]_vars

\* A step was made with an operation late whose deadline has not passed yet.
C38_Witness ==
    \E r \in OperationRefs(jobs) :
        /\ Late(jobs, current_step, r)
        /\ ~deadline_passed(Snapshot, OperationAt(jobs, r))
        /\ last.call = "step"
        /\ \E machine_id \in MachineIds : ~machine_runtimes_map[machine_id].busy


\* A map a caller can pass: every key is given the first action of the map.
Repeated(actions) ==
    LET NonNull(entry) == entry[2] /= None
        present == SelectSeq(actions, NonNull)
    IN  [i \in DOMAIN actions |->
            <<actions[i][1], IF present = <<>> THEN None ELSE present[1][2]>>]

\* The maps apply_actions is called with: those of ActionMaps, and each of them
\* with its first action repeated.
CallerMaps == ActionMaps \cup {Repeated(actions) : actions \in ActionMaps}

\* C39: apply_actions is all-or-nothing: when the dispatch of an action of the
\* map fails, the Factory state after the error is the state before the call.
C39_ApplyActionsIsAllOrNothing ==
    \A actions \in CallerMaps :
        apply_actions(Factory, actions).error /= "" =>
            apply_actions(Factory, actions).factory = Factory


\* The first operation with that id in the jobs of the factory the snapshot was
\* taken of.
SnapshotOperation(operation_id) ==
    OperationAt(jobs, get_operation_by_id(Factory, operation_id)[1])

\* C40: every action GeneticScheduler.schedule returns is for an operation that
\* is neither started nor done in the snapshot, starts no earlier than the
\* snapshot's current step, and is on a machine that the snapshot shows busy
\* only after that step.
C40_ScheduleRespectsSnapshot ==
    scheduler.pc = "returned" =>
        \A i \in DOMAIN scheduler.scheduled_actions :
            LET action == scheduler.scheduled_actions[i]
            IN  /\ ~SnapshotOperation(action.operation_id).started
                /\ ~SnapshotOperation(action.operation_id).done
                /\ action.start_step >= Snapshot.current_step
                /\ is_machine_busy(Snapshot, action.machine_id) =>
                       action.start_step > Snapshot.current_step

====
